---- MODULE Spec2Model ----
(***************************************************************************)
(* Model of birdblues/translator: the MarkdownProtector (protector.py),    *)
(* the AdaptiveMarkdownChunker (chunker.py) and the MarkdownTranslator     *)
(* pipeline (translator.py).                                               *)
(*                                                                         *)
(* Text is a sequence of one-character strings.  Positions are 0-based, as *)
(* in the Python source: Slice(t, a, b) is t[a:b], Find(t, sub, start) is  *)
(* t.find(sub, start).  Every regular expression of the source is modelled *)
(* by the leftmost match the backtracking engine returns for it.           *)
(***************************************************************************)
EXTENDS Integers, Sequences, FiniteSets, TLC

----------------------------------------------------------------------------
(* Python string primitives *)

Min(S) == CHOOSE x \in S : \A y \in S : x <= y

Max(S) == CHOOSE x \in S : \A y \in S : x >= y

\* t[a:b] with 0 <= a
Slice(t, a, b) == SubSeq(t, a + 1, IF b < Len(t) THEN b ELSE Len(t))

\* t[i] when i is in range, "" otherwise (a one-character slice t[i:i+1])
At(t, i) == IF i >= 0 /\ i < Len(t) THEN t[i + 1] ELSE ""

\* t.find(sub, start): the least index >= start where sub occurs, or -1
Find(t, sub, start) ==
    LET S == {i \in start..(Len(t) - Len(sub)) : SubSeq(t, i + 1, i + Len(sub)) = sub}
    IN IF S = {} THEN -1 ELSE Min(S)

\* t.rfind(sub, start, end) for a one-character sub: the greatest index in
\* start..end-1 holding it, or -1
RFindChar(t, c, start, end) ==
    LET S == {i \in start..(end - 1) : At(t, i) = c}
    IN IF S = {} THEN -1 ELSE Max(S)

\* the characters of a text: the code points below U+0100, which are the
\* characters a string of this module can hold.  The tables that follow are
\* those of Python's str type on these code points.

\* the characters c with c.lower() != c, in code point order
UpperLetters ==
    <<"A", "B", "C", "D", "E", "F", "G", "H", "I", "J", "K", "L", "M",
      "N", "O", "P", "Q", "R", "S", "T", "U", "V", "W", "X", "Y", "Z",
      "À", "Á", "Â", "Ã", "Ä", "Å", "Æ", "Ç", "È", "É", "Ê", "Ë", "Ì",
      "Í", "Î", "Ï", "Ð", "Ñ", "Ò", "Ó", "Ô", "Õ", "Ö", "Ø", "Ù", "Ú",
      "Û", "Ü", "Ý", "Þ">>

\* c.lower() for the characters of UpperLetters, in the same order
LowerLetters ==
    <<"a", "b", "c", "d", "e", "f", "g", "h", "i", "j", "k", "l", "m",
      "n", "o", "p", "q", "r", "s", "t", "u", "v", "w", "x", "y", "z",
      "à", "á", "â", "ã", "ä", "å", "æ", "ç", "è", "é", "ê", "ë", "ì",
      "í", "î", "ï", "ð", "ñ", "ò", "ó", "ô", "õ", "ö", "ø", "ù", "ú",
      "û", "ü", "ý", "þ">>

ToLower == [c \in {UpperLetters[i] : i \in 1..Len(UpperLetters)} |->
               LowerLetters[CHOOSE i \in 1..Len(UpperLetters) : UpperLetters[i] = c]]

\* str.lower() on one character; re.IGNORECASE takes two of these characters
\* for the same exactly when lower() makes them equal
LowerChar(c) == IF c \in DOMAIN ToLower THEN ToLower[c] ELSE c

\* the characters \s matches in a str pattern: \t \n \v \f \r, U+001C to
\* U+001F, the space, U+0085 and U+00A0
WhitespaceChars ==
    {"\t", "\n", "", "\f", "\r", "", "", "", "", " ", "", " "}

Lower(t) == [i \in 1..Len(t) |-> LowerChar(t[i])]

\* str(n) for n >= 0
RECURSIVE Digits(_)
Digits(n) ==
    LET d == <<"0", "1", "2", "3", "4", "5", "6", "7", "8", "9">>
    IN IF n < 10 THEN <<d[n + 1]>> ELSE Digits(n \div 10) \o <<d[(n % 10) + 1]>>

\* s.replace(old, new): every non-overlapping occurrence, left to right
RECURSIVE ReplaceFrom(_, _, _, _)
ReplaceFrom(t, old, new, start) ==
    LET i == Find(t, old, start)
    IN IF i = -1
       THEN Slice(t, start, Len(t))
       ELSE Slice(t, start, i) \o new \o ReplaceFrom(t, old, new, i + Len(old))

\* a slip: only the first occurrence replaced, s.replace(old, new, 1)
ReplaceFirst(t, old, new) ==
    LET i == Find(t, old, 0)
    IN IF i = -1 THEN t ELSE Slice(t, 0, i) \o new \o Slice(t, i + Len(old), Len(t))

Replace(t, old, new) == ReplaceFrom(t, old, new, 0)

----------------------------------------------------------------------------
(* dict: insertion-ordered list of (key, value); d[k] = v keeps the place  *)
(* of an existing key                                                      *)

EmptyDict == <<>>

DictKeys(d) == {d[i].k : i \in 1..Len(d)}

DictSet(d, key, val) ==
    IF key \in DictKeys(d)
    THEN [i \in 1..Len(d) |-> IF d[i].k = key THEN [k |-> key, v |-> val] ELSE d[i]]
    ELSE Append(d, [k |-> key, v |-> val])

----------------------------------------------------------------------------
(* placeholder tokens *)

YamlPlaceholder ==
    <<"_", "_", "Y", "A", "M", "L", "_", "F", "R", "O", "N", "T", "_",
      "M", "A", "T", "T", "E", "R", "_", "_">>

MathPrefix == <<"_", "_", "M", "A", "T", "H", "_", "B", "L", "O", "C", "K", "_">>

CodePrefix == <<"_", "_", "C", "O", "D", "E", "_", "B", "L", "O", "C", "K", "_">>

IndentPrefix ==
    <<"_", "_", "I", "N", "D", "E", "N", "T", "_", "B", "L", "O", "C", "K", "_">>

TablePrefix ==
    <<"_", "_", "T", "A", "B", "L", "E", "_", "B", "L", "O", "C", "K", "_">>

HtmlPrefix == <<"_", "_", "H", "T", "M", "L", "_", "T", "A", "G", "_">>

\* f"__MATH_BLOCK_{n}__" and its siblings
Placeholder(prefix, n) == prefix \o Digits(n) \o <<"_", "_">>

----------------------------------------------------------------------------
(* the five regex passes before the markup pass.  A match is <<s, e>>: the *)
(* span t[s:e].                                                            *)

\* re.search(r'^---\n([\s\S]*?)\n---', text): the match, or <<>> for None
YamlMatch(t) ==
    IF Slice(t, 0, 4) /= <<"-", "-", "-", "\n">>
    THEN <<>>
    ELSE LET k == Find(t, <<"\n", "-", "-", "-">>, 4)
         IN IF k = -1 THEN <<>> ELSE <<0, k + 4>>

_protect_yaml_front_matter(t) ==
    LET m == YamlMatch(t)
    IN IF m = <<>>
       THEN [text |-> t, blocks |-> EmptyDict]
       ELSE [text |-> Slice(t, 0, m[1]) \o YamlPlaceholder \o Slice(t, m[2], Len(t)),
             blocks |-> DictSet(EmptyDict, YamlPlaceholder, Slice(t, m[1], m[2]))]

\* a slip: the pattern written with a greedy .* , one match from the first
\* $$ to the last
MathMatchesGreedy(t) ==
    LET s == Find(t, <<"$", "$">>, 0)
        ends == {e \in (s + 2)..(Len(t) - 2) : Slice(t, e, e + 2) = <<"$", "$">>}
    IN IF s = -1 \/ ends = {} THEN <<>> ELSE <<<<s, Max(ends) + 2>>>>

\* re.finditer(r'(\$\$\s*\n?.*?\n?\s*\$\$)', text, re.DOTALL)
RECURSIVE MathMatchesFrom(_, _)
MathMatchesFrom(t, pos) ==
    LET s == Find(t, <<"$", "$">>, pos)
        e == Find(t, <<"$", "$">>, s + 2)
    IN IF s = -1 THEN <<>>
       ELSE IF e = -1 THEN <<>>
       ELSE <<<<s, e + 2>>>> \o MathMatchesFrom(t, e + 2)

MathMatches(t) == MathMatchesFrom(t, 0)

\* the character U+0060, which a TLA+ string cannot hold
Backtick == "BACKTICK"

\* one alternative of the fence pattern at s: fence, rest of line, newline,
\* lazily up to the next fence; the end of the match or -1
FenceAt(t, s, fence) ==
    IF Slice(t, s, s + Len(fence)) /= fence
    THEN -1
    ELSE LET nl == Find(t, <<"\n">>, s + Len(fence))
             e == Find(t, fence, nl + 1)
         IN IF nl = -1 THEN -1
            ELSE IF e = -1 THEN -1
            ELSE e + Len(fence)

\* the fenced code pattern (four backticks ... four backticks, or three ...
\* three, each opening fence followed by the rest of its line) tried at s
CodeAt(t, s) ==
    LET four == FenceAt(t, s, <<Backtick, Backtick, Backtick, Backtick>>)
    IN IF four /= -1 THEN four ELSE FenceAt(t, s, <<Backtick, Backtick, Backtick>>)

\* the end, after its newline, of a line [ \t]+[^\n]+\n at p, or -1
IndentLineEnd(t, p) ==
    IF At(t, p) \notin {" ", "\t"}
    THEN -1
    ELSE LET q == Find(t, <<"\n">>, p)
         IN IF q = -1 \/ q - p < 2 THEN -1 ELSE q + 1

\* the ends of the consecutive indented lines from p, nearest first
RECURSIVE IndentLineEnds(_, _)
IndentLineEnds(t, p) ==
    LET e == IndentLineEnd(t, p)
    IN IF e = -1 THEN <<>> ELSE <<e>> \o IndentLineEnds(t, e)

\* r'(?<=\n\n)(?:[ \t]+[^\n]+\n)+(?=\n|$)' tried at s: the greatest number
\* of lines after which the lookahead holds
IndentAt(t, s) ==
    IF s < 2 \/ Slice(t, s - 2, s) /= <<"\n", "\n">>
    THEN -1
    ELSE LET ends == IndentLineEnds(t, s)
             ok == {i \in 1..Len(ends) : ends[i] = Len(t) \/ At(t, ends[i]) = "\n"}
         IN IF ok = {} THEN -1 ELSE ends[Max(ok)]

\* the character class [-|\s]
SeparatorChars == {"-", "|"} \cup WhitespaceChars

\* a slip: the data-row group without its +, one data row only
TableRowsOne(t, d, last) ==
    IF At(t, d) /= "|"
    THEN last
    ELSE LET nl == Find(t, <<"\n">>, d)
             q == IF nl = -1 THEN Len(t) ELSE nl
             j == RFindChar(t, "|", d + 2, q)
         IN IF j = -1 THEN last
            ELSE IF At(t, j + 1) = "\n" THEN j + 2 ELSE j + 1

\* (?:\|[^\n]+\|\n?)+ from d: the end after the last row, 'last' when no
\* (further) row matches
RECURSIVE TableRowsFrom(_, _, _)
TableRowsFrom(t, d, last) ==
    IF At(t, d) /= "|"
    THEN last
    ELSE LET nl == Find(t, <<"\n">>, d)
             q == IF nl = -1 THEN Len(t) ELSE nl
             j == RFindChar(t, "|", d + 2, q)
             e == IF At(t, j + 1) = "\n" THEN j + 2 ELSE j + 1
         IN IF j = -1 THEN last ELSE TableRowsFrom(t, e, e)

\* the first index after p + 1 that is not in [-|\s]
RECURSIVE SeparatorRunEnd(_, _)
SeparatorRunEnd(t, r) ==
    IF r < Len(t) /\ At(t, r) \in SeparatorChars THEN SeparatorRunEnd(t, r + 1) ELSE r

\* r'(\|[^\n]+\|\n\|[-|\s]+\|\n(?:\|[^\n]+\|\n?)+)' tried at s: header row,
\* then the longest separator run after which at least one data row matches
TableAt(t, s) ==
    LET q == Find(t, <<"\n">>, s)
        p == q + 1
        r == SeparatorRunEnd(t, p + 1)
        cands == {j \in (p + 2)..(r - 1) :
                     /\ At(t, j) = "|"
                     /\ At(t, j + 1) = "\n"
                     /\ TableRowsFrom(t, j + 2, -1) /= -1}
    IN IF At(t, s) /= "|" THEN -1
       ELSE IF q = -1 \/ q - 1 < s + 2 \/ At(t, q - 1) /= "|" THEN -1
       ELSE IF At(t, p) /= "|" THEN -1
       ELSE IF cands = {} THEN -1
       ELSE TableRowsFrom(t, Max(cands) + 2, -1)

\* re.finditer for a pattern given by its match-at-position operator:
\* leftmost matches, non-overlapping, the search resuming at each match's end
RECURSIVE FindIter(_, _, _)
FindIter(MatchAt(_, _), t, s) ==
    IF s >= Len(t)
    THEN <<>>
    ELSE LET e == MatchAt(t, s)
         IN IF e = -1
            THEN FindIter(MatchAt, t, s + 1)
            ELSE <<<<s, e>>>> \o FindIter(MatchAt, t, e)

CodeMatches(t) == FindIter(CodeAt, t, 0)

IndentMatches(t) == FindIter(IndentAt, t, 0)

TableMatches(t) == FindIter(TableAt, t, 0)

\* a slip: the position in the reversed list used as the index
EnumerateIndex(n, i) == i

\* a slip: every match stored under the index of the last one
ReversedIndexLast(n, i) == n - 1

\* the index the i-th match taken from the end (i from 0) is stored under:
\* len(matches) - 1 - i
ReversedIndex(n, i) == n - 1 - i

\* for i, match in enumerate(reversed(matches)): store the span and replace
\* it by its placeholder.  st = [text, blocks]; i counts from 0.
RECURSIVE SubstituteReversed(_, _, _, _, _)
SubstituteReversed(orig, matches, prefix, i, st) ==
    IF i >= Len(matches)
    THEN st
    ELSE LET m == matches[Len(matches) - i]
             ph == Placeholder(prefix, ReversedIndex(Len(matches), i))
         IN SubstituteReversed(orig, matches, prefix, i + 1,
                [text |-> Slice(st.text, 0, m[1]) \o ph \o Slice(st.text, m[2], Len(st.text)),
                 blocks |-> DictSet(st.blocks, ph, Slice(orig, m[1], m[2]))])

IndexedPass(t, matches, prefix) ==
    SubstituteReversed(t, matches, prefix, 0, [text |-> t, blocks |-> EmptyDict])

_protect_math_blocks(t) == IndexedPass(t, MathMatches(t), MathPrefix)

_protect_code_blocks(t) == IndexedPass(t, CodeMatches(t), CodePrefix)

_protect_indent_blocks(t) == IndexedPass(t, IndentMatches(t), IndentPrefix)

_protect_table_blocks(t) == IndexedPass(t, TableMatches(t), TablePrefix)

----------------------------------------------------------------------------
(* the markup pass *)

\* phase 1, r'<!--[\s\S]*?-->'
RECURSIVE CommentMatchesFrom(_, _)
CommentMatchesFrom(t, pos) ==
    LET s == Find(t, <<"<", "!", "-", "-">>, pos)
        e == Find(t, <<"-", "-", ">">>, s + 4)
    IN IF s = -1 THEN <<>>
       ELSE IF e = -1 THEN <<>>
       ELSE <<<<s, e + 3>>>> \o CommentMatchesFrom(t, e + 3)

CommentMatches(t) == CommentMatchesFrom(t, 0)

ScriptName == <<"s", "c", "r", "i", "p", "t">>

StyleName == <<"s", "t", "y", "l", "e">>

\* r'<name[^>]*>[\s\S]*?</name>' under re.IGNORECASE, tried at s
ElementAt(t, s, name) ==
    LET open == <<"<">> \o name
        close == <<"<", "/">> \o name \o <<">">>
        g == Find(t, <<">">>, s + Len(open))
        e == Find(Lower(t), close, g + 1)
    IN IF Lower(Slice(t, s, s + Len(open))) /= open THEN -1
       ELSE IF g = -1 THEN -1
       ELSE IF e = -1 THEN -1
       ELSE e + Len(close)

ScriptAt(t, s) == ElementAt(t, s, ScriptName)

StyleAt(t, s) == ElementAt(t, s, StyleName)

\* a slip: the script elements left to the scan
ScriptMatchesNone(t) == <<>>

ScriptMatches(t) == FindIter(ScriptAt, t, 0)

StyleMatches(t) == FindIter(StyleAt, t, 0)

\* the state of _protect_html_blocks:
\*   [text: protected_text, blocks: html_blocks, counter: block_counter, pos]

\* store protected_text[s:e] under __HTML_TAG_<block_counter>__, substitute,
\* count, and leave pos where it is
MaskSpan(st, s, e) ==
    LET ph == Placeholder(HtmlPrefix, st.counter)
    IN [text |-> Slice(st.text, 0, s) \o ph \o Slice(st.text, e, Len(st.text)),
        blocks |-> DictSet(st.blocks, ph, Slice(st.text, s, e)),
        counter |-> st.counter + 1,
        pos |-> st.pos]

\* for match in reversed(matches): mask it
RECURSIVE MaskReversed(_, _, _)
MaskReversed(st, matches, i) ==
    IF i >= Len(matches)
    THEN st
    ELSE LET m == matches[Len(matches) - i]
         IN MaskReversed(MaskSpan(st, m[1], m[2]), matches, i + 1)

\* a slip: the markup scan started without the priority phase
PriorityPhaseSkipped(t) == [text |-> t, blocks |-> EmptyDict, counter |-> 0, pos |-> 0]

\* for pattern in priority_patterns: comments, then script, then style, each
\* searched in the text the previous pattern left
PriorityPhase(t) ==
    LET st0 == [text |-> t, blocks |-> EmptyDict, counter |-> 0, pos |-> 0]
        st1 == MaskReversed(st0, CommentMatches(st0.text), 0)
        st2 == MaskReversed(st1, ScriptMatches(st1.text), 0)
    IN MaskReversed(st2, StyleMatches(st2.text), 0)

\* the characters \w matches in a str pattern: the letters, the digits and
\* the underscore, with the letters that have no other case and the numeric
\* characters of the Latin-1 supplement
WordChars ==
    {UpperLetters[i] : i \in 1..Len(UpperLetters)}
        \cup {LowerLetters[i] : i \in 1..Len(LowerLetters)}
        \cup {"0", "1", "2", "3", "4", "5", "6", "7", "8", "9", "_"}
        \cup {"ª", "²", "³", "µ", "¹", "º", "¼", "½", "¾", "ß", "ÿ"}

\* the end of the run of \w characters from j
RECURSIVE WordEnd(_, _)
WordEnd(t, j) == IF At(t, j) \in WordChars THEN WordEnd(t, j + 1) ELSE j

\* re.match(r'<(\w+)', text[tag_start:]).group(1), or <<>> for no match
TagNameAt(t, tag_start) == Slice(t, tag_start + 1, WordEnd(t, tag_start + 1))

\* a slip: the test for '/>' left out
SelfClosingNever(t, tag_start) == -1

\* re.match(r'<[^>]+\s*/>', text[tag_start:]): the end of the match in text,
\* or -1
SelfClosingEnd(t, tag_start) ==
    LET g == Find(t, <<">">>, tag_start + 1)
    IN IF At(t, tag_start + 1) \in {"", ">"} THEN -1
       ELSE IF g = -1 THEN -1
       ELSE IF At(t, g - 1) /= "/" \/ g - 1 < tag_start + 2 THEN -1
       ELSE g + 1

single_tags ==
    {<<"b", "r">>, <<"h", "r">>, <<"i", "m", "g">>, <<"i", "n", "p", "u", "t">>,
     <<"m", "e", "t", "a">>, <<"l", "i", "n", "k">>, <<"a", "r", "e", "a">>,
     <<"b", "a", "s", "e">>, <<"c", "o", "l">>, <<"e", "m", "b", "e", "d">>,
     <<"s", "o", "u", "r", "c", "e">>, <<"t", "r", "a", "c", "k">>, <<"w", "b", "r">>}

\* text[i:i+12] == '__HTML_TAG_': a twelve-character slice compared with the
\* eleven-character prefix
IsPlaceholderAt(t, i) == Slice(t, i, i + 12) = HtmlPrefix

\* where the scan resumes after a placeholder found at i
SkipPlaceholder(t, i) ==
    LET placeholder_end == Find(t, <<"_", "_">>, i + 12)
    IN IF placeholder_end /= -1 THEN placeholder_end + 2 ELSE i + 1

\* re.match(rf'</{tag_name}>', text[next_tag:], re.IGNORECASE): the length
\* of the match, or -1
CloseTagMatch(t, next_tag, tag_name) ==
    LET close == <<"<", "/">> \o tag_name \o <<">">>
    IN IF Lower(Slice(t, next_tag, next_tag + Len(close))) = close
       THEN Len(close)
       ELSE -1

\* re.match(rf'<{tag_name}[^>]*>', text[next_tag:], re.IGNORECASE): the
\* length of the match, or -1
OpenTagMatch(t, next_tag, tag_name) ==
    LET open == <<"<">> \o tag_name
        g == Find(t, <<">">>, next_tag + Len(open))
    IN IF Lower(Slice(t, next_tag, next_tag + Len(open))) /= open THEN -1
       ELSE IF g = -1 THEN -1
       ELSE g + 1 - next_tag

\* the while loop of _find_complete_tag
RECURSIVE FindCloseLoop(_, _, _, _)
FindCloseLoop(t, tag_name, pos, open_count) ==
    IF ~(pos < Len(t) /\ open_count > 0)
    THEN -1
    ELSE LET next_tag == Find(t, <<"<">>, pos)
             cl == CloseTagMatch(t, next_tag, tag_name)
             op == OpenTagMatch(t, next_tag, tag_name)
         IN IF next_tag = -1 THEN -1
            ELSE IF IsPlaceholderAt(t, next_tag)
            THEN FindCloseLoop(t, tag_name, SkipPlaceholder(t, next_tag), open_count)
            ELSE IF Slice(t, next_tag, next_tag + 2) = <<"<", "/">>
            THEN IF cl /= -1
                 THEN IF open_count - 1 = 0
                      THEN next_tag + cl
                      ELSE FindCloseLoop(t, tag_name, next_tag + cl, open_count - 1)
                 ELSE FindCloseLoop(t, tag_name, next_tag + 1, open_count)
            ELSE IF op /= -1
                 THEN FindCloseLoop(t, tag_name, next_tag + op,
                          IF At(t, next_tag + op - 2) = "/" /\ op >= 2
                          THEN open_count
                          ELSE open_count + 1)
                 ELSE FindCloseLoop(t, tag_name, next_tag + 1, open_count)

\* one iteration of that loop from (pos, open_count): the values at the next
\* loop head, or <<>> when the iteration returns
FindCloseStep(t, tag_name, pos, open_count) ==
    LET next_tag == Find(t, <<"<">>, pos)
        cl == CloseTagMatch(t, next_tag, tag_name)
        op == OpenTagMatch(t, next_tag, tag_name)
        at(p, c) == [pos |-> p, open_count |-> c]
    IN IF next_tag = -1 THEN <<>>
       ELSE IF IsPlaceholderAt(t, next_tag) THEN at(SkipPlaceholder(t, next_tag), open_count)
       ELSE IF Slice(t, next_tag, next_tag + 2) = <<"<", "/">>
       THEN IF cl /= -1
            THEN IF open_count - 1 = 0 THEN <<>> ELSE at(next_tag + cl, open_count - 1)
            ELSE at(next_tag + 1, open_count)
       ELSE IF op /= -1
            THEN at(next_tag + op,
                    IF At(t, next_tag + op - 2) = "/" /\ op >= 2
                    THEN open_count
                    ELSE open_count + 1)
            ELSE at(next_tag + 1, open_count)

\* the values of (pos, open_count) at the loop heads from which an iteration
\* runs, in order
RECURSIVE FindCloseTrace(_, _, _, _)
FindCloseTrace(t, tag_name, pos, open_count) ==
    IF ~(pos < Len(t) /\ open_count > 0)
    THEN <<>>
    ELSE LET nx == FindCloseStep(t, tag_name, pos, open_count)
         IN <<[pos |-> pos, open_count |-> open_count]>>
              \o (IF nx = <<>> THEN <<>>
                  ELSE FindCloseTrace(t, tag_name, nx.pos, nx.open_count))

_find_complete_tag(t, start_pos, tag_name) ==
    LET tag_start_end == Find(t, <<">">>, start_pos)
    IN IF tag_start_end = -1 THEN -1 ELSE FindCloseLoop(t, tag_name, tag_start_end + 1, 1)

\* the scan has ended: pos >= len(protected_text), or no '<' at or after pos
ScanDone(st) == st.pos >= Len(st.text) \/ Find(st.text, <<"<">>, st.pos) = -1

\* the scan state with the cursor moved to p
MoveTo(st, p) == [st EXCEPT !.pos = p]

\* a slip: the cursor left where it was when a span is masked
MaskAndStay(st, s, e) == MaskSpan(st, s, e)

\* mask protected_text[s:e] and put the cursor after the placeholder
MaskAndJump(st, s, e) ==
    MoveTo(MaskSpan(st, s, e), s + Len(Placeholder(HtmlPrefix, st.counter)))

\* a slip: giving up the scan at a '<' that cannot be masked
LeaveUnmaskedAndStop(st, tag_start) == MoveTo(st, Len(st.text))

\* what the scan does with a '<' it leaves unmasked: pos = tag_start + 1
LeaveUnmasked(st, tag_start) == MoveTo(st, tag_start + 1)

\* one iteration of the while loop of _protect_html_blocks, for ~ScanDone(st)
ScanStep(st) ==
    LET t == st.text
        tag_start == Find(t, <<"<">>, st.pos)
        name == TagNameAt(t, tag_start)
        tag_name == Lower(name)
        sc == SelfClosingEnd(t, tag_start)
        close_bracket == Find(t, <<">">>, tag_start)
        tag_end == _find_complete_tag(t, tag_start, tag_name)
    IN IF IsPlaceholderAt(t, tag_start) THEN MoveTo(st, SkipPlaceholder(t, tag_start))
       ELSE IF name = <<>> THEN LeaveUnmasked(st, tag_start)
       ELSE IF sc /= -1 THEN MaskAndJump(st, tag_start, sc)
       ELSE IF tag_name \in single_tags
       THEN IF close_bracket = -1
            THEN LeaveUnmasked(st, tag_start)
            ELSE MaskAndJump(st, tag_start, close_bracket + 1)
       ELSE IF tag_end /= -1 THEN MaskAndJump(st, tag_start, tag_end)
       ELSE LeaveUnmasked(st, tag_start)

RECURSIVE ScanLoop(_)
ScanLoop(st) == IF ScanDone(st) THEN st ELSE ScanLoop(ScanStep(st))

_protect_html_blocks(t) ==
    LET st == ScanLoop(PriorityPhase(t))
    IN [text |-> st.text, blocks |-> st.blocks]

----------------------------------------------------------------------------
(* protect and restore *)

NoBlocks ==
    [yaml |-> EmptyDict, math |-> EmptyDict, code |-> EmptyDict,
     indent |-> EmptyDict, table |-> EmptyDict, html |-> EmptyDict]

\* protect(text): [text |-> the masked text, blocks |-> self.protected_blocks]
protect(t) ==
    LET y == _protect_yaml_front_matter(t)
        m == _protect_math_blocks(y.text)
        c == _protect_code_blocks(m.text)
        i == _protect_indent_blocks(c.text)
        tb == _protect_table_blocks(i.text)
        h == _protect_html_blocks(tb.text)
    IN [text |-> h.text,
        blocks |-> [yaml |-> y.blocks, math |-> m.blocks, code |-> c.blocks,
                    indent |-> i.blocks, table |-> tb.blocks, html |-> h.blocks]]

\* for placeholder, block in blocks.items(): result = result.replace(...)
RECURSIVE RestoreItems(_, _, _)
RestoreItems(t, d, i) ==
    IF i > Len(d) THEN t ELSE RestoreItems(Replace(t, d[i].k, d[i].v), d, i + 1)

_restore_blocks(t, d) == RestoreItems(t, d, 1)

\* a slip: the categories restored in the order protect masked them
restoreInProtectOrder(t, blocks) ==
    LET y == _restore_blocks(t, blocks.yaml)
        m == _restore_blocks(y, blocks.math)
        c == _restore_blocks(m, blocks.code)
        i == _restore_blocks(c, blocks.indent)
        tb == _restore_blocks(i, blocks.table)
    IN _restore_blocks(tb, blocks.html)

\* restore(text) with self.protected_blocks = blocks
restore(t, blocks) ==
    LET h == _restore_blocks(t, blocks.html)
        tb == _restore_blocks(h, blocks.table)
        i == _restore_blocks(tb, blocks.indent)
        c == _restore_blocks(i, blocks.code)
        m == _restore_blocks(c, blocks.math)
    IN _restore_blocks(m, blocks.yaml)

----------------------------------------------------------------------------
(* input documents: concatenations of at most MaxPieces fragments *)

MaxPieces == 4

MarkupFragments ==
    {<<"<", "b", ">">>, <<"<", "/", "b", ">">>, <<"<", "b", "r", ">">>,
     <<"<", "i", ">">>, <<"<", "/", "i", ">">>,
     <<"<", "!", "-", "-", "c", "-", "-", ">">>,
     <<"x">>, <<"<">>}

BlockFragments ==
    {<<"-", "-", "-", "\n">>, <<"$", "$", "m", "$", "$">>, <<"\n">>,
     <<Backtick, Backtick, Backtick>>, <<"|", "a", "|", "\n">>,
     <<"|", "-", "|", "\n">>, <<" ", "x", "\n">>, <<"<", "b", "r", ">">>}

RECURSIVE Flatten(_)
Flatten(ps) == IF ps = <<>> THEN <<>> ELSE Head(ps) \o Flatten(Tail(ps))

\* the concatenations of at most n fragments
TextsOver(frags, n) ==
    {Flatten(ps) : ps \in UNION {[1..k -> frags] : k \in 0..n}}

\* the nested-tag example of the specification
DivSpanExample ==
    <<"<", "d", "i", "v", ">",
      "<", "s", "p", "a", "n", ">", "x", "<", "/", "s", "p", "a", "n", ">",
      "<", "s", "p", "a", "n", ">", "y", "<", "/", "s", "p", "a", "n", ">",
      "<", "/", "d", "i", "v", ">">>

\* a math block inside a paired element
MathInElement == <<"<", "b", ">", "$", "$", "m", "$", "$", "<", "/", "b", ">">>

\* the math example of the specification: Text. $$a+b=c$$ more.
MathExample ==
    <<"T", "e", "x", "t", ".", " ", "$", "$", "a", "+", "b", "=", "c", "$", "$",
      " ", "m", "o", "r", "e", ".">>

\* an opening $$ that is never closed, after a complete math block
UnclosedMath == <<"$", "$", "m", "$", "$", "x", "$", "$", "y">>

\* a three-row pipe table whose last row ends the text without a newline
TableAtEndOfText == <<"|", "a", "|", "\n", "|", "-", "|", "\n", "|", "a", "|">>

\* an element around a comment that hides a close tag of the element's name
CommentHidesCloseTag ==
    <<"<", "b", ">", "<", "!", "-", "-", "<", "/", "b", ">", "-", "-", ">", "<", "/", "b", ">">>

\* an element around a comment that hides an open tag of the element's name
CommentHidesOpenTag ==
    <<"<", "b", ">", "<", "!", "-", "-", "<", "b", ">", "-", "-", ">", "<", "/", "b", ">">>

\* the example of a script element that hides a close tag of the element
\* around it: <div><script></div></script></div>
ScriptHidesCloseTag ==
    <<"<", "d", "i", "v", ">", "<", "s", "c", "r", "i", "p", "t", ">",
      "<", "/", "d", "i", "v", ">", "<", "/", "s", "c", "r", "i", "p", "t", ">",
      "<", "/", "d", "i", "v", ">">>

\* a style element that hides an open tag of the element around it
StyleHidesOpenTag ==
    <<"<", "b", ">", "<", "S", "t", "y", "l", "e", ">", "<", "b", ">",
      "<", "/", "s", "t", "y", "l", "e", ">", "<", "/", "b", ">">>

\* a self-closing tag of a paired name with a close tag of that name behind
\* it, and a void tag in upper case: <b/>x</b><HR>
SelfClosingAndVoid ==
    <<"<", "b", "/", ">", "x", "<", "/", "b", ">", "<", "H", "R", ">">>

\* a void tag with no '>' behind it
VoidWithoutBracket == <<"x", "<", "b", "r", " ", "y">>

\* an element whose name only starts like a void name: <bra>y</bra>
NotVoid == <<"<", "b", "r", "a", ">", "y", "<", "/", "b", "r", "a", ">">>

\* an element whose name is a letter outside ASCII, closed in the other case,
\* and a name that only starts like a void name: <É>x</é><BRÉ>
AccentedTagNames ==
    <<"<", "É", ">", "x", "<", "/", "é", ">", "<", "B", "R", "É", ">">>

\* a table whose separator row holds a carriage return
CarriageReturnSeparator ==
    <<"|", "a", "|", "\n", "|", "-", "\r", "|", "\n", "|", "a", "|", "\n">>

\* a text that opens with a line --- and whose next line with hyphens at its
\* start is a line of four
FourHyphenLine == <<"-", "-", "-", "\n", "a", "\n", "-", "-", "-", "-", "\n">>

\* two different math blocks and two different code fences
TwoMathTwoCode ==
    <<"$", "$", "a", "$", "$", "x", "$", "$", "b", "$", "$", "\n",
      Backtick, Backtick, Backtick, "\n", "a", Backtick, Backtick, Backtick, "\n",
      Backtick, Backtick, Backtick, "\n", "b", Backtick, Backtick, Backtick, "\n">>

\* two indented blocks and two tables
TwoIndentTwoTable ==
    <<"x", "\n", "\n", " ", "a", "\n", "\n", " ", "b", "\n", "\n",
      "|", "a", "|", "\n", "|", "-", "|", "\n", "|", "a", "|", "\n", "\n",
      "|", "b", "|", "\n", "|", "-", "|", "\n", "|", "b", "|", "\n">>

ScenarioTexts ==
    {DivSpanExample, MathInElement, MathExample, UnclosedMath, TableAtEndOfText,
     CommentHidesCloseTag, CommentHidesOpenTag, ScriptHidesCloseTag, StyleHidesOpenTag,
     SelfClosingAndVoid, VoidWithoutBracket, NotVoid, FourHyphenLine,
     AccentedTagNames, CarriageReturnSeparator,
     TwoMathTwoCode, TwoIndentTwoTable}

HeaderRow == <<"|", "a", "|", "\n">>

SeparatorRow == <<"|", "-", "|", "\n">>

\* header row, separator row, and one or two data rows, the last one with or
\* without its newline
PipeTables ==
    {HeaderRow \o SeparatorRow \o rows :
        rows \in {HeaderRow, HeaderRow \o HeaderRow, Slice(HeaderRow, 0, 3)}}

\* what stands in front of or behind a table, with its masked form; a table
\* whose last row has no newline ends the text, and a span in front and a
\* span behind are of different categories (each is number 0 of its own)
TableContexts ==
    {[text |-> <<>>, masked |-> <<>>],
     [text |-> <<"\n">>, masked |-> <<"\n">>],
     [text |-> <<"$", "$", "m", "$", "$">>, masked |-> Placeholder(MathPrefix, 0)],
     [text |-> <<"<", "b", "r", ">">>, masked |-> Placeholder(HtmlPrefix, 0)]}

\* the tables, alone and with something in front and behind
TableTexts ==
    {pre.text \o tbl \o post.text : pre \in TableContexts, post \in TableContexts,
                                    tbl \in PipeTables \cup {HeaderRow \o SeparatorRow}}

\* the block fragments are whole lines or blocks: one piece fewer of them gives
\* texts as long as the markup texts
Inputs(n) ==
    TextsOver(MarkupFragments, n) \cup TextsOver(BlockFragments, n - 1)
        \cup TableTexts \cup ScenarioTexts

\* the documents of two transformations that share one protector: none nests
\* one markup span in another
SharedInputs ==
    {<<"$", "$", "a", "$", "$">>,
     <<"$", "$", "b", "$", "$", "x">>,
     <<"x", "<", "b", "r", ">">>,
     <<"<", "i", ">", "y", "<", "/", "i", ">">>,
     <<"x">>}

----------------------------------------------------------------------------
(* the chunker.  A text is a sequence of tokens: the k-th token of the i-th *)
(* heading segment is <<i, k>>, and the blank line "\n\n" that joins two    *)
(* segments is the one token <<0, 0>>.  A Document is                      *)
(*   [page_content, metadata (the header keys), token_count]               *)
(* where token_count is metadata["token_count"], NoCount while unset.      *)

\* AdaptiveMarkdownChunker(max_tokens=...), scaled down
max_tokens == 3

MaxOverlap == 1

MaxSegments == 3

BlankLine == <<0, 0>>

NoCount == -1

\* len(self.encoding.encode(text))
count_tokens(content) == Len(content)

\* the sizes, in tokens, of the heading segments tried: small, exactly the
\* budget, just over it, and over the chunk size of the recursive splitter
SegmentSizes == {1, max_tokens, max_tokens + 1, 3 * max_tokens + 1}

\* header metadata of a segment: a section under "A"/"B", or a later
\* top-level section "C"
SegmentMetadata ==
    {[h \in {"Header 1", "Header 2"} |-> IF h = "Header 1" THEN "A" ELSE "B"],
     [h \in {"Header 1"} |-> "C"]}

SegmentContent(i, n) == [k \in 1..n |-> <<i, k>>]

\* self.markdown_splitter.split_text(markdown_text): the heading-partition
\* segments, here the input itself, numbered in source order
HeaderChunks(sizes, metas) ==
    [i \in 1..Len(sizes) |->
        [page_content |-> SegmentContent(i, sizes[i]),
         metadata |-> metas[i],
         token_count |-> NoCount]]

\* RecursiveCharacterTextSplitter.split_text: pieces of at most chunk_size
\* units of the length function, each starting chunk_overlap units before the
\* end of its predecessor
RECURSIVE SplitByLength(_, _, _)
SplitByLength(content, chunk_size, overlap) ==
    IF Len(content) <= chunk_size
    THEN <<content>>
    ELSE <<SubSeq(content, 1, chunk_size)>>
           \o SplitByLength(SubSeq(content, chunk_size - overlap + 1, Len(content)),
                            chunk_size, overlap)

\* chunk_size of self.text_splitter: self.max_tokens * 3, measured by
\* length_function = self.count_tokens
text_splitter_chunk_size == max_tokens * 3

\* self.text_splitter.split_documents([chunk]): one Document per piece, each
\* with a copy of the chunk's metadata
text_splitter_split_documents(chunk, overlap) ==
    LET pieces == SplitByLength(chunk.page_content, text_splitter_chunk_size, overlap)
    IN [j \in 1..Len(pieces) |->
           [page_content |-> pieces[j], metadata |-> chunk.metadata, token_count |-> NoCount]]

\* _process_chunk(chunk).  returned: the list it returns; chunk: the Document
\* handed in as the call leaves it.  Within the budget the count is written
\* into the Document itself, which is also the one element of the list;
\* over the budget the pieces are new Documents and the chunk stays as it was
_process_chunk(chunk, overlap) ==
    LET token_count == count_tokens(chunk.page_content)
        counted == [chunk EXCEPT !.token_count = token_count]
        split_chunks == text_splitter_split_documents(chunk, overlap)
    IN IF token_count <= max_tokens
       THEN [returned |-> <<counted>>, chunk |-> counted]
       ELSE [returned |->
                 [j \in 1..Len(split_chunks) |->
                     [split_chunks[j] EXCEPT
                         !.token_count = count_tokens(split_chunks[j].page_content)]],
             chunk |-> chunk]

\* a slip: the segment put in front of the buffer
MergedContentReversed(acc, chunk) == chunk.page_content \o <<BlankLine>> \o acc.page_content

\* merged_content = accumulator.page_content + "\n\n" + chunk.page_content
MergedContent(acc, chunk) == acc.page_content \o <<BlankLine>> \o chunk.page_content

\* a slip: the merge tested against the chunk size of the recursive splitter
FitsChunkSize(merged_tokens) == merged_tokens <= max_tokens * 3

\* a slip: a merge that exactly fills the budget refused
FitsStrictly(merged_tokens) == merged_tokens < max_tokens

\* if merged_tokens <= self.max_tokens
Fits(merged_tokens) == merged_tokens <= max_tokens

\* a slip: the headings the buffer has already are kept, the segment adds
\* only new levels
MetadataKeepOld(m, u) ==
    [h \in DOMAIN m \cup DOMAIN u |-> IF h \in DOMAIN m THEN m[h] ELSE u[h]]

\* accumulator.metadata.update(chunk.metadata)
MetadataUpdate(m, u) ==
    [h \in DOMAIN m \cup DOMAIN u |-> IF h \in DOMAIN u THEN u[h] ELSE m[h]]

RECURSIVE Sum(_)
Sum(xs) == IF xs = <<>> THEN 0 ELSE Head(xs) + Sum(Tail(xs))

\* a slip: a unit exactly at the budget counted as over the limit
OverLimitOrAt(count) == count >= max_tokens

\* count > self.max_tokens
OverLimit(count) == count > max_tokens

\* get_chunk_stats(chunks).  The quotient sum / len is kept as the fraction
\* num / den; the 0 of an empty list is 0 / 1.
get_chunk_stats(chunks) ==
    LET token_counts ==
            [j \in 1..Len(chunks) |->
                IF chunks[j].token_count = NoCount THEN 0 ELSE chunks[j].token_count]
    IN [total_chunks |-> Len(chunks),
        total_tokens |-> Sum(token_counts),
        avg_tokens_per_chunk |->
            IF chunks /= <<>>
            THEN [num |-> Sum(token_counts), den |-> Len(chunks)]
            ELSE [num |-> 0, den |-> 1],
        max_tokens |-> IF token_counts = <<>> THEN 0
                       ELSE Max({token_counts[j] : j \in 1..Len(token_counts)}),
        chunks_over_limit |->
            Cardinality({j \in 1..Len(token_counts) : OverLimit(token_counts[j])})]

----------------------------------------------------------------------------
(* the state: one MarkdownProtector with the document transformations that *)
(* use it, and one AdaptiveMarkdownChunker inside a call of split_text     *)

VARIABLES
    protected_blocks,   \* self.protected_blocks of the MarkdownProtector
    doc,                \* per document transformation: its text, the masked
                        \* text protect returned, the result of restore, the
                        \* result of a second restore, and where it stands
    chunk_overlap,      \* self.chunk_overlap of the chunker
    segments,           \* what self.markdown_splitter.split_text returned, as it
                        \* was returned: the heading-partition segments
    header_chunks,      \* split_text: the list of those Documents; the loop
                        \* writes into the ones accumulator is bound to
    next_chunk,         \* split_text: the index of the segment the loop takes next
    accumulator,        \* split_text: the running buffer, None before the first segment
    accumulator_ref,    \* split_text: the index in header_chunks of the Document
                        \* the name accumulator is bound to (accumulator = chunk
                        \* binds the object, it makes no copy), 0 while None
    final_chunks,       \* split_text: the Units emitted so far
    finalized,          \* the buffers handed to _process_chunk so far, in order
    cpc,                \* split_text: "idle", "loop", "done"; "stats" after
                        \* get_chunk_stats
    stats,              \* what get_chunk_stats(final_chunks) returned, None before
    tr                  \* a call of MarkdownTranslator.translate_file: its
                        \* locals and where it stands

protectorVars == <<protected_blocks, doc>>

chunkerVars ==
    <<chunk_overlap, segments, header_chunks, next_chunk, accumulator, accumulator_ref,
      final_chunks, finalized, cpc, stats>>

translatorVars == <<tr>>

vars == <<protected_blocks, doc, chunk_overlap, segments, header_chunks, next_chunk,
          accumulator, accumulator_ref, final_chunks, finalized, cpc, stats, tr>>

DocIds == {1, 2}

NoDoc == [text |-> <<>>, masked |-> <<>>, restored |-> <<>>, again |-> <<>>, pc |-> "none"]

NewDoc(t) == [text |-> t, masked |-> <<>>, restored |-> <<>>, again |-> <<>>, pc |-> "new"]

None == <<>>

\* no call of translate_file under way.  pc: "idle", "read" (content read),
\* "protected", "chunked", "translated" (translate has returned result),
\* "returned" (translate_file has returned success).  log: the calls
\* translate has made and that have returned, in order.  stats: None, or the
\* text get_translation_stats was called with, the masked text and the Units
\* it computed, and the dict it returned
TranslatorIdle ==
    [pc |-> "idle", content |-> <<>>, protected_text |-> <<>>, chunks |-> <<>>,
     translated_chunks |-> <<>>, failed |-> {}, translated_text |-> <<>>,
     result |-> <<>>, written |-> <<>>, success |-> "pending",
     log |-> <<>>, stats |-> <<>>]

\* no call of split_text under way
ChunkerIdle ==
    /\ chunk_overlap = 0
    /\ segments = <<>>
    /\ header_chunks = <<>>
    /\ next_chunk = 1
    /\ accumulator = None
    /\ accumulator_ref = 0
    /\ final_chunks = <<>>
    /\ finalized = <<>>
    /\ cpc = "idle"
    /\ stats = None

\* MarkdownProtector.__init__, and one document about to be transformed
Init ==
    /\ protected_blocks = NoBlocks
    /\ \E t \in Inputs(MaxPieces) : doc = [d \in DocIds |-> IF d = 1 THEN NewDoc(t) ELSE NoDoc]
    /\ ChunkerIdle
    /\ tr = TranslatorIdle

\* a slip: a category map overwritten only when its pass has found a span
ProtectKeepingOld(d) ==
    /\ doc[d].pc = "new"
    /\ LET r == protect(doc[d].text)
       IN /\ protected_blocks' =
                 [c \in DOMAIN protected_blocks |->
                     IF r.blocks[c] = EmptyDict THEN protected_blocks[c] ELSE r.blocks[c]]
          /\ doc' = [doc EXCEPT ![d].masked = r.text, ![d].pc = "protected"]
    /\ UNCHANGED <<chunkerVars, translatorVars>>

\* masked = protector.protect(text)
Protect(d) ==
    /\ doc[d].pc = "new"
    /\ LET r == protect(doc[d].text)
       IN /\ protected_blocks' = r.blocks
          /\ doc' = [doc EXCEPT ![d].masked = r.text, ![d].pc = "protected"]
    /\ UNCHANGED <<chunkerVars, translatorVars>>

\* result = protector.restore(masked)
Restore(d) ==
    /\ doc[d].pc = "protected"
    /\ doc' = [doc EXCEPT ![d].restored = restore(doc[d].masked, protected_blocks),
                          ![d].pc = "restored"]
    /\ UNCHANGED <<protected_blocks, chunkerVars, translatorVars>>

\* protector.restore(result): restore applied to its own result
RestoreAgain(d) ==
    /\ doc[d].pc = "restored"
    /\ doc' = [doc EXCEPT ![d].again = restore(doc[d].restored, protected_blocks),
                          ![d].pc = "restored twice"]
    /\ UNCHANGED <<protected_blocks, chunkerVars, translatorVars>>

Next ==
    \E d \in DocIds :
        \/ Protect(d)
        \/ Restore(d)
        \/ RestoreAgain(d)

\* one document transformation on a fresh protector
Spec == Init /\ [][Next]_vars

\* two document transformations in flight on the same protector (the same
\* MarkdownTranslator.protector), their calls interleaved in any order
InitShared ==
    /\ protected_blocks = NoBlocks
    /\ \E a \in SharedInputs, b \in SharedInputs : doc = [d \in DocIds |-> NewDoc(IF d = 1 THEN a ELSE b)]
    /\ ChunkerIdle
    /\ tr = TranslatorIdle

SpecShared == InitShared /\ [][Next]_vars

\* protect called for a document only when no other document is between its
\* protect and its restore
ProtectInTurn(d) ==
    /\ \A e \in DocIds \ {d} : doc[e].pc /= "protected"
    /\ Protect(d)

NextSequential ==
    \E d \in DocIds :
        \/ ProtectInTurn(d)
        \/ Restore(d)
        \/ RestoreAgain(d)

\* two document transformations on the same protector, one after the other
SpecSequential == InitShared /\ [][NextSequential]_vars

\* AdaptiveMarkdownChunker(max_tokens, chunk_overlap=...) and a call of
\* split_text whose text partitions into at most MaxSegments segments
InitChunker ==
    /\ protected_blocks = NoBlocks
    /\ doc = [d \in DocIds |-> NoDoc]
    /\ chunk_overlap \in 0..MaxOverlap
    /\ \E n \in 0..MaxSegments :
          \E sizes \in [1..n -> SegmentSizes], metas \in [1..n -> SegmentMetadata] :
              /\ segments = HeaderChunks(sizes, metas)
              /\ header_chunks = HeaderChunks(sizes, metas)
    /\ next_chunk = 1
    /\ accumulator = None
    /\ accumulator_ref = 0
    /\ final_chunks = <<>>
    /\ finalized = <<>>
    /\ cpc = "loop"
    /\ stats = None
    /\ tr = TranslatorIdle

InLoop == cpc = "loop" /\ next_chunk <= Len(header_chunks)

\* loop body, accumulator is None: accumulator = chunk
StartBuffer ==
    /\ InLoop
    /\ accumulator = None
    /\ accumulator' = header_chunks[next_chunk]
    /\ accumulator_ref' = next_chunk
    /\ next_chunk' = next_chunk + 1
    /\ UNCHANGED <<protectorVars, translatorVars, stats, chunk_overlap, segments, header_chunks,
                   final_chunks, finalized, cpc>>

\* loop body, merged_tokens <= self.max_tokens: the buffer absorbs the
\* chunk.  The two assignments write into the Document accumulator is bound
\* to, an element of header_chunks
Absorb ==
    /\ InLoop
    /\ accumulator /= None
    /\ LET chunk == header_chunks[next_chunk]
           merged_content == MergedContent(accumulator, chunk)
           merged == [accumulator EXCEPT
                         !.page_content = merged_content,
                         !.metadata = MetadataUpdate(accumulator.metadata, chunk.metadata)]
       IN /\ Fits(count_tokens(merged_content))
          /\ accumulator' = merged
          /\ header_chunks' = [header_chunks EXCEPT ![accumulator_ref] = merged]
    /\ next_chunk' = next_chunk + 1
    /\ UNCHANGED <<protectorVars, translatorVars, stats, chunk_overlap, segments, accumulator_ref,
                   final_chunks, finalized, cpc>>

\* loop body, otherwise: the buffer goes through _process_chunk and the
\* chunk starts the next buffer
FinalizeAndRestart ==
    /\ InLoop
    /\ accumulator /= None
    /\ LET chunk == header_chunks[next_chunk]
           processed == _process_chunk(accumulator, chunk_overlap)
       IN /\ ~Fits(count_tokens(MergedContent(accumulator, chunk)))
          /\ final_chunks' = final_chunks \o processed.returned
          /\ finalized' = Append(finalized, accumulator)
          /\ header_chunks' = [header_chunks EXCEPT ![accumulator_ref] = processed.chunk]
          /\ accumulator' = chunk
          /\ accumulator_ref' = next_chunk
    /\ next_chunk' = next_chunk + 1
    /\ UNCHANGED <<protectorVars, translatorVars, stats, chunk_overlap, segments, cpc>>

\* a slip: the return without the flush of the running buffer
FinishSplitWithoutFlush ==
    /\ cpc = "loop"
    /\ next_chunk > Len(header_chunks)
    /\ cpc' = "done"
    /\ UNCHANGED <<protectorVars, translatorVars, stats, chunk_overlap, segments, header_chunks,
                   next_chunk, accumulator, accumulator_ref, final_chunks, finalized>>

\* a slip: the last buffer processed without the test "if accumulator", None
\* taken for an empty Document
FinishSplitUnguarded ==
    /\ cpc = "loop"
    /\ next_chunk > Len(header_chunks)
    /\ LET last == IF accumulator = None
                   THEN [page_content |-> <<>>, metadata |-> <<>>, token_count |-> NoCount]
                   ELSE accumulator
           processed == _process_chunk(last, chunk_overlap)
       IN /\ final_chunks' = final_chunks \o processed.returned
          /\ finalized' = Append(finalized, last)
          /\ IF accumulator = None
             THEN UNCHANGED <<header_chunks, accumulator>>
             ELSE /\ header_chunks' = [header_chunks EXCEPT ![accumulator_ref] = processed.chunk]
                  /\ accumulator' = processed.chunk
    /\ cpc' = "done"
    /\ UNCHANGED <<protectorVars, translatorVars, stats, chunk_overlap, segments, next_chunk,
                   accumulator_ref>>

\* after the loop: if accumulator: its _process_chunk; return final_chunks.
\* The Document _process_chunk writes the count into is the one accumulator
\* is bound to, an element of header_chunks
FinishSplit ==
    /\ cpc = "loop"
    /\ next_chunk > Len(header_chunks)
    /\ IF accumulator /= None
       THEN LET processed == _process_chunk(accumulator, chunk_overlap)
            IN /\ final_chunks' = final_chunks \o processed.returned
               /\ finalized' = Append(finalized, accumulator)
               /\ header_chunks' = [header_chunks EXCEPT ![accumulator_ref] = processed.chunk]
               /\ accumulator' = processed.chunk
       ELSE UNCHANGED <<final_chunks, finalized, header_chunks, accumulator>>
    /\ cpc' = "done"
    /\ UNCHANGED <<protectorVars, translatorVars, stats, chunk_overlap, segments, next_chunk,
                   accumulator_ref>>

\* chunker.get_chunk_stats(chunks), on the Units split_text returned or on
\* the heading segments as the loop left them: those that were not the first
\* of a buffer within the budget carry no token_count
GetChunkStats ==
    /\ cpc = "done"
    /\ \E chunks \in {final_chunks, header_chunks} :
           stats' = [chunks |-> chunks, result |-> get_chunk_stats(chunks)]
    /\ cpc' = "stats"
    /\ UNCHANGED <<protectorVars, translatorVars, chunk_overlap, segments, header_chunks,
                   next_chunk, accumulator, accumulator_ref, final_chunks, finalized>>

NextChunker ==
    \/ StartBuffer
    \/ Absorb
    \/ FinalizeAndRestart
    \/ FinishSplit
    \/ GetChunkStats

SpecChunker == InitChunker /\ [][NextChunker]_vars

----------------------------------------------------------------------------
(* the translator: translate_file, translate and the rewriting oracle *)

MaxUnits == 3

NewLine == <<"\n">>

\* "\n".join(parts), and with sep = "\n\n" the merge of the chunker
RECURSIVE JoinWith(_, _)
JoinWith(parts, sep) ==
    IF parts = <<>> THEN <<>>
    ELSE IF Len(parts) = 1 THEN parts[1]
    ELSE parts[1] \o sep \o JoinWith(Tail(parts), sep)

\* the non-empty lines of a text, in order (return_each_line=True)
RECURSIVE Lines(_)
Lines(t) ==
    LET nl == Find(t, NewLine, 0)
        first == IF nl = -1 THEN t ELSE Slice(t, 0, nl)
        rest == IF nl = -1 THEN <<>> ELSE Lines(Slice(t, nl + 1, Len(t)))
    IN IF t = <<>> THEN <<>>
       ELSE IF first = <<>> THEN rest ELSE <<first>> \o rest

\* the lines a to b merged into one Unit
UnitOfLines(lines, a, b) == JoinWith(SubSeq(lines, a, b), NewLine \o NewLine)

\* self.chunker.split_text(protected_text), as far as translate depends on
\* it: the lines of the masked text, consecutive lines merged into Units in
\* any grouping (the grouping the token counts decide)
SplitChoices(t) ==
    LET lines == Lines(t)
        n == Len(lines)
        units(cuts) ==
            LET starts == {1} \cup {c + 1 : c \in cuts}
                start(k) == CHOOSE a \in starts : Cardinality({x \in starts : x < a}) = k - 1
                end(k) == IF k = Cardinality(starts) THEN n ELSE start(k + 1) - 1
            IN [k \in 1..Cardinality(starts) |-> UnitOfLines(lines, start(k), end(k))]
    IN IF n = 0 THEN {<<>>}
       ELSE {units(cuts) : cuts \in SUBSET (1..(n - 1))}

\* what requests.post does: status 200 with a response that is a text (the
\* prompt handed back, or handed back twice), status 200 with a response that
\* is no str (null, a number), another status, a RequestException, or
\* anything that raises another exception in the try block (a body of status
\* 200 without the key 'response', post raising an exception of another
\* class)
OracleOutcomes == {"ok", "ok twice", "no text", "status", "exception", "raises"}

\* response.status_code == 200
Answered(outcome) == outcome \in {"ok", "ok twice", "no text"}

\* str(response.status_code) of status 500
StatusText == <<"5", "0", "0">>

\* str(e) of the RequestException
ExceptionText == <<"r", "e", "f", "u", "s", "e", "d">>

ErrorPrefix == <<"E", "r", "r", "o", "r", ":", " ">>

\* what stands for "the call has raised" where a call returns a text
Raised == <<"raise">>

\* a value of result['response'] that is no str: None
NotAText == <<"None">>

\* _generate_text(prompt): result['response'] whatever it is (here the oracle
\* hands the prompt back, once or twice, or what is no text), or the string
\* f"Error: ..."; an exception that is no RequestException is not caught and
\* leaves the call
_generate_text(prompt, outcome) ==
    IF outcome = "ok" THEN prompt
    ELSE IF outcome = "ok twice" THEN prompt \o prompt
    ELSE IF outcome = "no text" THEN NotAText
    ELSE IF outcome = "status" THEN ErrorPrefix \o StatusText
    ELSE IF outcome = "exception" THEN ErrorPrefix \o ExceptionText
    ELSE Raised

\* a call translate makes: of protect, split_text, join or restore (unit 0),
\* or of _generate_text on the unit-th Unit
Call(op, unit) == [op |-> op, unit |-> unit]

\* the Units as Documents with their token counts, a character a token
UnitDocuments(chunks) ==
    [i \in 1..Len(chunks) |->
        [page_content |-> chunks[i], metadata |-> <<>>,
         token_count |-> count_tokens(chunks[i])]]

\* get_translation_stats(text), with protected_text = protect(text) and
\* chunks = split_text(protected_text): the dict it returns
get_translation_stats(text, protected_text, chunks) ==
    LET chunk_stats == get_chunk_stats(UnitDocuments(chunks))
    IN [original_length |-> Len(text),
        protected_length |-> Len(protected_text),
        total_chunks |-> chunk_stats.total_chunks,
        total_tokens |-> chunk_stats.total_tokens,
        avg_tokens_per_chunk |-> chunk_stats.avg_tokens_per_chunk,
        estimated_api_calls |-> Len(chunks)]

\* the documents translate_file reads
TranslatorInputs ==
    {<<>>,
     <<"x">>,
     <<"a", "\n", "$", "$", "m", "$", "$">>,
     <<"<", "b", "r", ">", "\n", "x", "\n", "y">>,
     <<"$", "$", "m", "$", "$", "\n", "\n", "x">>}

\* with open(input_path) as f: content = f.read()
ReadFile ==
    /\ tr.pc = "idle"
    /\ \E t \in TranslatorInputs : tr' = [tr EXCEPT !.pc = "read", !.content = t]
    /\ UNCHANGED <<protectorVars, chunkerVars>>

\* open(input_path) raises: except Exception: return False
ReadFileFails ==
    /\ tr.pc = "idle"
    /\ tr' = [tr EXCEPT !.pc = "returned", !.success = "False"]
    /\ UNCHANGED <<protectorVars, chunkerVars>>

\* translate: protected_text = self.protector.protect(text)
TranslateProtect ==
    /\ tr.pc = "read"
    /\ LET r == protect(tr.content)
       IN /\ protected_blocks' = r.blocks
          /\ tr' = [tr EXCEPT !.pc = "protected", !.protected_text = r.text,
                              !.log = Append(@, Call("protect", 0))]
    /\ UNCHANGED <<doc, chunkerVars>>

\* split_text is a function of its text: the Units of a text that
\* get_translation_stats has split before are the same Units
SplitBefore(protected_text) ==
    IF tr.stats /= None /\ tr.stats.protected_text = protected_text
    THEN {tr.stats.chunks}
    ELSE IF Len(tr.log) >= 2 /\ tr.protected_text = protected_text
    THEN {tr.chunks}
    ELSE {}

\* self.chunker.split_text(protected_text) in this translator
SplitText(protected_text) ==
    IF SplitBefore(protected_text) /= {}
    THEN SplitBefore(protected_text)
    ELSE {chunks \in SplitChoices(protected_text) : Len(chunks) <= MaxUnits}

\* translate: chunks = self.chunker.split_text(protected_text)
TranslateSplit ==
    /\ tr.pc = "protected"
    /\ \E chunks \in SplitText(tr.protected_text) :
           /\ Len(chunks) <= MaxUnits
           /\ tr' = [tr EXCEPT !.pc = "chunked", !.chunks = chunks,
                               !.log = Append(@, Call("split_text", 0))]
    /\ UNCHANGED <<protectorVars, chunkerVars>>

\* a slip: a Unit whose request failed sent to the oracle a second time
CallOracleWithRetry ==
    /\ tr.pc = "chunked"
    /\ Len(tr.translated_chunks) < Len(tr.chunks)
    /\ LET i == Len(tr.translated_chunks) + 1
       IN \E outcome \in OracleOutcomes, second \in OracleOutcomes :
              LET last == IF Answered(outcome) \/ outcome = "raises" THEN outcome ELSE second
                  calls == IF last = outcome
                           THEN <<Call("_generate_text", i)>>
                           ELSE <<Call("_generate_text", i), Call("_generate_text", i)>>
              IN IF _generate_text(tr.chunks[i], last) = Raised
                 THEN tr' = [tr EXCEPT !.pc = "returned", !.success = "False",
                                       !.log = @ \o Tail(calls)]
                 ELSE tr' = [tr EXCEPT
                                !.translated_chunks = Append(@, _generate_text(tr.chunks[i], last)),
                                !.failed = IF Answered(last) THEN @ ELSE @ \cup {i},
                                !.log = @ \o calls]
    /\ UNCHANGED <<protectorVars, chunkerVars>>

\* translate, loop body: translated = self._generate_text(chunk.page_content);
\* translated_chunks.append(translated).  An exception that leaves
\* _generate_text leaves translate as well, and translate_file returns False
\* from its except Exception
CallOracle ==
    /\ tr.pc = "chunked"
    /\ Len(tr.translated_chunks) < Len(tr.chunks)
    /\ LET i == Len(tr.translated_chunks) + 1
       IN \E outcome \in OracleOutcomes :
              LET translated == _generate_text(tr.chunks[i], outcome)
              IN IF translated = Raised
                 THEN tr' = [tr EXCEPT !.pc = "returned", !.success = "False"]
                 ELSE tr' = [tr EXCEPT
                                !.translated_chunks = Append(@, translated),
                                !.failed = IF Answered(outcome) THEN @ ELSE @ \cup {i},
                                !.log = Append(@, Call("_generate_text", i))]
    /\ UNCHANGED <<protectorVars, chunkerVars>>

\* translate, after the loop: translated_text = "\n".join(translated_chunks);
\* result = self.protector.restore(translated_text); return result.  The
\* join raises TypeError when an answer is no str: translate is left before
\* restore and translate_file returns False from its except Exception
JoinAndRestore ==
    /\ tr.pc = "chunked"
    /\ Len(tr.translated_chunks) = Len(tr.chunks)
    /\ LET translated_text == JoinWith(tr.translated_chunks, NewLine)
       IN IF \E i \in 1..Len(tr.translated_chunks) : tr.translated_chunks[i] = NotAText
          THEN tr' = [tr EXCEPT !.pc = "returned", !.success = "False"]
          ELSE tr' = [tr EXCEPT !.pc = "translated",
                                !.translated_text = translated_text,
                                !.result = restore(translated_text, protected_blocks),
                                !.log = @ \o <<Call("join", 0), Call("restore", 0)>>]
    /\ UNCHANGED <<protectorVars, chunkerVars>>

\* translate_file: f.write(translated); return True
WriteFile ==
    /\ tr.pc = "translated"
    /\ tr' = [tr EXCEPT !.pc = "returned", !.written = tr.result, !.success = "True"]
    /\ UNCHANGED <<protectorVars, chunkerVars>>

\* open(output_path, 'w') raises: except Exception: return False
WriteFileFails ==
    /\ tr.pc = "translated"
    /\ tr' = [tr EXCEPT !.pc = "returned", !.success = "False"]
    /\ UNCHANGED <<protectorVars, chunkerVars>>

\* translator.get_translation_stats(text), called between the calls of
\* translate_file: before one, or after one has returned, True or False, on
\* the document of that call or on another text.  It calls protect and
\* split_text and returns the statistics
GetTranslationStats ==
    /\ tr.pc \in {"idle", "returned"}
    /\ tr.stats = None
    /\ \E text \in TranslatorInputs :
           LET r == protect(text)
           IN \E chunks \in SplitText(r.text) :
                  /\ protected_blocks' = r.blocks
                  /\ tr' = [tr EXCEPT
                                !.stats = [text |-> text, protected_text |-> r.text,
                                           chunks |-> chunks,
                                           result |-> get_translation_stats(text, r.text, chunks)]]
    /\ UNCHANGED <<doc, chunkerVars>>

InitTranslator ==
    /\ protected_blocks = NoBlocks
    /\ doc = [d \in DocIds |-> NoDoc]
    /\ ChunkerIdle
    /\ tr = TranslatorIdle

NextTranslator ==
    \/ ReadFile
    \/ ReadFileFails
    \/ TranslateProtect
    \/ TranslateSplit
    \/ CallOracle
    \/ JoinAndRestore
    \/ WriteFile
    \/ WriteFileFails
    \/ GetTranslationStats

\* one call of translate_file on a fresh MarkdownTranslator
SpecTranslator == InitTranslator /\ [][NextTranslator]_vars

----------------------------------------------------------------------------
(* properties of the protector *)

Docs(pcs) == {d \in DocIds : doc[d].pc \in pcs}

Protected == {"protected", "restored", "restored twice"}

\* the placeholder tokens of a block map, category by category
AllKeys(blocks) ==
    LET ks(d) == [i \in 1..Len(d) |-> d[i].k]
    IN ks(blocks.yaml) \o ks(blocks.math) \o ks(blocks.code)
         \o ks(blocks.indent) \o ks(blocks.table) \o ks(blocks.html)

Occurs(t, sub) == Find(t, sub, 0) /= -1

\* C1: restore applied to the unmodified result of protect, with no other
\* call on the protector in between, returns the input text exactly.
C1_RoundTripIdentity ==
    \A d \in Docs({"restored", "restored twice"}) : doc[d].restored = doc[d].text

\* C2: whatever other transformation has used the protector in between, a
\* document is restored with the block map its own protect call produced.
C2_RestoreUsesOwnBlockMap ==
    \A d \in Docs({"restored", "restored twice"}) :
        doc[d].restored = restore(doc[d].masked, protect(doc[d].text).blocks)

OpenTag(name) == <<"<">> \o name \o <<">">>

CloseTag(name) == <<"<", "/">> \o name \o <<">">>

PairedNames == {<<"b">>, <<"i">>}

\* complete elements: a void element, or a paired element around text
ChildElements ==
    {OpenTag(n) \o body \o CloseTag(n) : n \in PairedNames, body \in {<<>>, <<"x">>}}
        \cup {OpenTag(<<"b", "r">>)}

\* a paired element whose content is one or two complete elements
NestedElements ==
    {OpenTag(n) \o c \o CloseTag(n) : n \in PairedNames, c \in ChildElements}
        \cup {OpenTag(n) \o c1 \o c2 \o CloseTag(n) :
                 n \in PairedNames, c1 \in ChildElements, c2 \in ChildElements}
        \cup {DivSpanExample}

\* C3: a paired element whose children are complete elements is masked as
\* exactly one markup placeholder that stores the whole element; no child gets
\* a placeholder of its own and no '<' of the element is left in the output.
C3_NestedElementIsOnePlaceholder ==
    \A d \in Docs({"protected"}) :
        doc[d].text \in NestedElements =>
            /\ doc[d].masked = Placeholder(HtmlPrefix, 0)
            /\ protected_blocks.html =
                   <<[k |-> Placeholder(HtmlPrefix, 0), v |-> doc[d].text]>>
            /\ ~Occurs(doc[d].masked, <<"<">>)

\* C8: after one restore no placeholder of the block map is left in the
\* result, and a second restore with the same block map changes nothing.
C8_RestoreIsIdempotent ==
    /\ \A d \in Docs({"restored"}) :
           \A i \in 1..Len(AllKeys(protected_blocks)) :
               ~Occurs(doc[d].restored, AllKeys(protected_blocks)[i])
    /\ \A d \in Docs({"restored twice"}) : doc[d].again = doc[d].restored

\* the texts the passes of protect(t) search: the input, then the output of
\* each earlier pass
PassInputs(t) ==
    LET y == _protect_yaml_front_matter(t)
        m == _protect_math_blocks(y.text)
        c == _protect_code_blocks(m.text)
        i == _protect_indent_blocks(c.text)
        tb == _protect_table_blocks(i.text)
    IN [yaml |-> t, math |-> y.text, code |-> m.text, indent |-> c.text,
        table |-> i.text, html |-> tb.text]

\* the number of spans each pass of protect(t) replaces by a placeholder
SpansMasked(t) ==
    LET in == PassInputs(t)
    IN [yaml |-> IF YamlMatch(in.yaml) = <<>> THEN 0 ELSE 1,
        math |-> Len(MathMatches(in.math)),
        code |-> Len(CodeMatches(in.code)),
        indent |-> Len(IndentMatches(in.indent)),
        table |-> Len(TableMatches(in.table)),
        html |-> ScanLoop(PriorityPhase(in.html)).counter]

Categories == {"yaml", "math", "code", "indent", "table", "html"}

\* C9: the placeholders of one protect call are pairwise distinct, within and
\* across the categories, and each category map has exactly one entry per
\* span masked in that category.
C9_PlaceholdersAreDistinct ==
    \A d \in Docs({"protected"}) :
        LET keys == AllKeys(protected_blocks)
            spans == SpansMasked(doc[d].text)
        IN /\ \A i \in 1..Len(keys), j \in 1..Len(keys) : i /= j => keys[i] /= keys[j]
           /\ [c \in Categories |-> Len(protected_blocks[c])] = [c \in Categories |-> spans[c]]

C9_Witness ==
    \E d \in Docs({"protected"}) :
        /\ Len(protected_blocks.math) >= 2
        /\ protected_blocks.math[1].v = protected_blocks.math[2].v
        /\ Len(protected_blocks.html) >= 1

\* C11: the math example of the specification is masked to
\* Text. __MATH_BLOCK_0__ more. with the one span in the math map and nothing
\* in the other maps, and restored exactly; in general the math pass stores
\* every $$...$$ span (from a $$ to the next $$) under a placeholder of its
\* own, leaves no complete span behind, and changes nothing outside the spans.
C11_MathBlocksMasked ==
    \A d \in Docs(Protected) :
        LET in == PassInputs(doc[d].text).math
            out == _protect_math_blocks(in)
            math == protected_blocks.math
            dollars == <<"$", "$">>
        IN /\ doc[d].text = MathExample =>
                  /\ doc[d].masked = Slice(MathExample, 0, 6) \o Placeholder(MathPrefix, 0)
                                        \o Slice(MathExample, 15, 21)
                  /\ protected_blocks =
                         [NoBlocks EXCEPT !.math = <<[k |-> Placeholder(MathPrefix, 0),
                                                      v |-> Slice(MathExample, 6, 15)]>>]
                  /\ doc[d].pc /= "protected" => doc[d].restored = MathExample
           /\ math = out.blocks
           /\ \A i \in 1..Len(math) :
                  /\ Len(math[i].v) >= 4
                  /\ Slice(math[i].v, 0, 2) = dollars
                  /\ Find(math[i].v, dollars, 2) = Len(math[i].v) - 2
                  /\ Occurs(out.text, math[i].k)
                  /\ \A j \in 1..Len(math) : i /= j => math[i].k /= math[j].k
           /\ Find(out.text, dollars, Find(out.text, dollars, 0) + 2) = -1
                  \/ Find(out.text, dollars, 0) = -1
           /\ _restore_blocks(out.text, math) = in

C11_Witness ==
    \E d \in Docs({"restored"}) :
        /\ doc[d].text = MathExample
        /\ Len(protected_blocks.math) = 1

\* two math blocks and an unclosed $$ behind them
C11_WitnessGeneral ==
    \E d \in Docs({"protected"}) :
        /\ doc[d].text = UnclosedMath
        /\ Len(protected_blocks.math) = 1
        /\ Occurs(doc[d].masked, <<"$", "$">>)

\* C12: a header row, a separator row and one or more data rows are masked
\* as the one placeholder __TABLE_BLOCK_0__ that stores all the rows, and
\* restore gives the text back; a header row and a separator row with no data
\* row are not masked.
C12_TableIsOnePlaceholder ==
    \A d \in Docs(Protected) :
        \A pre \in TableContexts, post \in TableContexts :
          (pre.text = post.text => pre.masked = pre.text) =>
            /\ \A tbl \in PipeTables :
                   (/\ doc[d].text = pre.text \o tbl \o post.text
                    /\ tbl[Len(tbl)] /= "\n" => post.text = <<>>) =>
                       /\ doc[d].masked = pre.masked \o Placeholder(TablePrefix, 0) \o post.masked
                       /\ protected_blocks.table =
                              <<[k |-> Placeholder(TablePrefix, 0), v |-> tbl]>>
                       /\ doc[d].pc /= "protected" => doc[d].restored = doc[d].text
            /\ doc[d].text = pre.text \o HeaderRow \o SeparatorRow \o post.text =>
                   /\ protected_blocks.table = <<>>
                   /\ doc[d].masked = pre.masked \o HeaderRow \o SeparatorRow \o post.masked

\* a table of four rows, masked and restored
C12_Witness ==
    \E d \in Docs({"restored"}) :
        /\ doc[d].text = HeaderRow \o SeparatorRow \o HeaderRow \o HeaderRow
        /\ Len(protected_blocks.table) = 1
        /\ doc[d].restored = doc[d].text

\* a header row and a separator row alone
C12_WitnessNoDataRow ==
    \E d \in Docs({"protected"}) :
        /\ doc[d].text = HeaderRow \o SeparatorRow
        /\ doc[d].masked = doc[d].text

\* the text the markup scan starts on: the output of the table pass with the
\* comments, script and style elements masked
ScanInput(t) == PriorityPhase(PassInputs(t).html).text

\* the positions after 'from' of the open tags named exactly 'name' that are
\* not self-closing
ExactOpens(t, from, name) ==
    {p \in from..(Len(t) - 1) :
        /\ Lower(Slice(t, p, p + 1 + Len(name))) = <<"<">> \o name
        /\ At(t, p + 1 + Len(name)) \notin WordChars
        /\ Find(t, <<">">>, p) /= -1
        /\ At(t, Find(t, <<">">>, p) - 1) /= "/"}

\* the positions after 'from' of the close tags named exactly 'name'
ExactCloses(t, from, name) ==
    {p \in from..(Len(t) - 1) :
        Lower(Slice(t, p, p + Len(CloseTag(name)))) = CloseTag(name)}

\* where the element opened at start_pos ends when only tags named exactly
\* 'name' count: behind the first close tag at which the closes seen equal
\* the opens seen, the opening tag included; -1 when there is none
ExactDepthEnd(t, start_pos, name) ==
    LET from == Find(t, <<">">>, start_pos) + 1
        opens == ExactOpens(t, from, name)
        closes == ExactCloses(t, from, name)
        depth(c) == 1 + Cardinality({p \in opens : p < c})
                      - Cardinality({p \in closes : p <= c})
        ends == {c \in closes : depth(c) = 0}
    IN IF from = 0 \/ ends = {} THEN -1 ELSE Min(ends) + Len(CloseTag(name))

\* C16: in the search for the close tag of a paired element only the tags
\* named exactly like the element change the depth, so the element ends where
\* the count over the exactly-named tags says; a tag whose name only starts
\* with the element's name changes nothing.
C16_DepthCountsExactNamesOnly ==
    \A d \in Docs({"protected"}) :
        LET t == ScanInput(doc[d].text)
        IN \A s \in 0..(Len(t) - 1) :
               (At(t, s) = "<" /\ TagNameAt(t, s) /= <<>>) =>
                   _find_complete_tag(t, s, Lower(TagNameAt(t, s)))
                       = ExactDepthEnd(t, s, Lower(TagNameAt(t, s)))

\* the order in which protect runs the passes
ProtectOrder == <<"yaml", "math", "code", "indent", "table", "html">>

\* category c is masked before category e
Earlier(c, e) ==
    \E i \in 1..6, j \in 1..6 : ProtectOrder[i] = c /\ ProtectOrder[j] = e /\ i < j

\* the placeholders of category c that sit inside a stored span of a later
\* category
NestedAcross(blocks, c) ==
    {i \in 1..Len(blocks[c]) :
        \E e \in Categories :
            /\ Earlier(c, e)
            /\ \E j \in 1..Len(blocks[e]) : Occurs(blocks[e][j].v, blocks[c][i].k)}

\* a markup span stores a markup placeholder (the nesting inside one
\* category, which the order of the categories does not settle)
MarkupInMarkup(blocks) ==
    \E i \in 1..Len(blocks.html), j \in 1..Len(blocks.html) :
        Occurs(blocks.html[i].v, blocks.html[j].k)

\* the text after the replacements of the first n categories of ProtectOrder
\* taken from the end
RECURSIVE RestoredThrough(_, _, _)
RestoredThrough(t, blocks, n) ==
    IF n = 0 THEN t
    ELSE _restore_blocks(RestoredThrough(t, blocks, n - 1), blocks[ProtectOrder[7 - n]])

\* C17: restore replaces category by category in the reverse of the protect
\* order, so a placeholder that sits inside the stored span of a later
\* category is replaced once that span is back in the text: none is left,
\* and the text is the original one unless a markup span stores a markup
\* placeholder.
C17_RestoreInReverseOrder ==
    \A d \in Docs({"restored"}) :
        /\ doc[d].restored = RestoredThrough(doc[d].masked, protected_blocks, 6)
        /\ \A c \in Categories :
               \A i \in NestedAcross(protected_blocks, c) :
                   ~Occurs(doc[d].restored, protected_blocks[c][i].k)
        /\ ~MarkupInMarkup(protected_blocks) => doc[d].restored = doc[d].text

\* a math block inside a paired element: the math placeholder is stored in
\* the markup span and restored after it
C17_Witness ==
    \E d \in Docs({"restored"}) :
        /\ doc[d].text = MathInElement
        /\ NestedAcross(protected_blocks, "math") = {1}
        /\ doc[d].restored = MathInElement

\* v without the placeholders keys[i..] that stand in it as whole tokens
RECURSIVE WithoutTokens(_, _, _)
WithoutTokens(v, keys, i) ==
    IF i > Len(keys) THEN v ELSE WithoutTokens(Replace(v, keys[i], <<>>), keys, i + 1)

\* the stored spans of a block map, category by category
AllSpans(blocks) ==
    LET vs(d) == [i \in 1..Len(d) |-> d[i].v]
    IN vs(blocks.yaml) \o vs(blocks.math) \o vs(blocks.code)
         \o vs(blocks.indent) \o vs(blocks.table) \o vs(blocks.html)

\* the element <b>...</b> around one masked comment: the comment is
\* placeholder 0, the element placeholder 1, stored with the comment's token
AroundComment(comment) ==
    <<[k |-> Placeholder(HtmlPrefix, 0), v |-> comment],
      [k |-> Placeholder(HtmlPrefix, 1),
       v |-> OpenTag(<<"b">>) \o Placeholder(HtmlPrefix, 0) \o CloseTag(<<"b">>)]>>

\* C18: a stored span holds placeholders of earlier passes and phases only as
\* whole tokens (none of the texts has an underscore of its own, so nothing
\* of a token is left once the whole tokens are taken out), and what a
\* placeholder hides neither ends the element around it nor changes its
\* depth: an element around a comment that hides </b> or <b> is masked whole.
C18_PlaceholdersAreOpaque ==
    \A d \in Docs({"protected"}) :
        LET keys == AllKeys(protected_blocks)
            spans == AllSpans(protected_blocks)
        IN /\ \A i \in 1..Len(spans) : ~Occurs(WithoutTokens(spans[i], keys, 1), <<"_">>)
           /\ ~Occurs(WithoutTokens(doc[d].masked, keys, 1), <<"_">>)
           /\ \A t \in {CommentHidesCloseTag, CommentHidesOpenTag} :
                  doc[d].text = t =>
                      /\ doc[d].masked = Placeholder(HtmlPrefix, 1)
                      /\ protected_blocks.html = AroundComment(Slice(t, 3, Len(t) - 4))

C18_Witness ==
    \E d \in Docs({"protected"}) :
        /\ doc[d].text = CommentHidesCloseTag
        /\ Len(protected_blocks.html) = 2

\* a stored span with the token of an earlier category in it
C18_WitnessAcross ==
    \E d \in Docs({"protected"}) :
        /\ NestedAcross(protected_blocks, "math") /= {}
        /\ Len(protected_blocks.html) = 1

\* the passes that number their matches, each with its placeholder prefix and
\* the pass that runs after it
IndexedCategories == {"math", "code", "indent", "table"}

PrefixOf(c) ==
    CASE c = "math" -> MathPrefix
      [] c = "code" -> CodePrefix
      [] c = "indent" -> IndentPrefix
      [] c = "table" -> TablePrefix

MatchesOf(c, t) ==
    CASE c = "math" -> MathMatches(t)
      [] c = "code" -> CodeMatches(t)
      [] c = "indent" -> IndentMatches(t)
      [] c = "table" -> TableMatches(t)

PassAfter(c) ==
    CASE c = "math" -> "code"
      [] c = "code" -> "indent"
      [] c = "indent" -> "table"
      [] c = "table" -> "html"

\* the span stored under a placeholder, <<>> when there is none
Lookup(d, key) ==
    IF \E i \in 1..Len(d) : d[i].k = key
    THEN d[CHOOSE i \in 1..Len(d) : d[i].k = key].v
    ELSE <<>>

\* t read from left to right from pos, the matches k.. replaced by the
\* placeholders numbered k - 1..
RECURSIVE NumberedFromLeft(_, _, _, _, _)
NumberedFromLeft(t, matches, prefix, k, pos) ==
    IF k > Len(matches)
    THEN Slice(t, pos, Len(t))
    ELSE Slice(t, pos, matches[k][1]) \o Placeholder(prefix, k - 1)
           \o NumberedFromLeft(t, matches, prefix, k + 1, matches[k][2])

\* C19: in the math, fenced-code, indented-code and table passes the k-th
\* match from the left (k from 0) is stored under the placeholder numbered k,
\* and the output is the input read from left to right with each match
\* replaced by its placeholder, every other character as it was.
C19_IndexFollowsTextOrder ==
    \A d \in Docs({"protected"}) :
        LET in == PassInputs(doc[d].text)
        IN \A c \in IndexedCategories :
               LET matches == MatchesOf(c, in[c])
               IN /\ Len(protected_blocks[c]) = Len(matches)
                  /\ \A k \in 1..Len(matches) :
                         Lookup(protected_blocks[c], Placeholder(PrefixOf(c), k - 1))
                             = Slice(in[c], matches[k][1], matches[k][2])
                  /\ in[PassAfter(c)] = NumberedFromLeft(in[c], matches, PrefixOf(c), 1, 0)

\* two different math blocks and two different code fences
C19_Witness ==
    \E d \in Docs({"protected"}) :
        /\ doc[d].text = TwoMathTwoCode
        /\ \A c \in {"math", "code"} : Len(protected_blocks[c]) = 2
        /\ Lookup(protected_blocks.math, Placeholder(MathPrefix, 1))
               = <<"$", "$", "b", "$", "$">>

\* two different indented blocks and two different tables
C19_WitnessIndentTable ==
    \E d \in Docs({"protected"}) :
        /\ doc[d].text = TwoIndentTwoTable
        /\ \A c \in {"indent", "table"} : Len(protected_blocks[c]) = 2
        /\ Lookup(protected_blocks.indent, Placeholder(IndentPrefix, 1))
               = <<" ", "b", "\n">>

\* the markup placeholders are numbered 0, 1, ... without a gap
MarkupKeysZeroBased(html) ==
    {html[i].k : i \in 1..Len(html)} = {Placeholder(HtmlPrefix, n) : n \in 0..(Len(html) - 1)}

\* C20: the markup placeholders are numbered from 0 in the order in which
\* their spans start in the text: of two placeholders in the masked text the
\* left one has the smaller number, and a span has a smaller number than the
\* spans masked inside it.
C20_MarkupIndexFollowsTextOrder ==
    \A d \in Docs({"protected"}) :
        LET html == protected_blocks.html
            key(n) == Placeholder(HtmlPrefix, n)
            at(n) == Find(doc[d].masked, key(n), 0)
            N == 0..(Len(html) - 1)
        IN /\ MarkupKeysZeroBased(html)
           /\ \A m \in N, n \in N :
                  (at(m) /= -1 /\ at(n) /= -1 /\ at(m) < at(n)) => m < n
           /\ \A m \in N, n \in N :
                  Occurs(Lookup(html, key(m)), key(n)) => m < n

\* the texts in which a comment, script or style element with a tag of the
\* outer element in it sits in a paired element: the text, the outer name,
\* and the inner element
HidingElements ==
    {[text |-> CommentHidesCloseTag, name |-> <<"b">>, inner |-> Slice(CommentHidesCloseTag, 3, 14)],
     [text |-> CommentHidesOpenTag, name |-> <<"b">>, inner |-> Slice(CommentHidesOpenTag, 3, 13)],
     [text |-> ScriptHidesCloseTag, name |-> <<"d", "i", "v">>,
      inner |-> Slice(ScriptHidesCloseTag, 5, 28)],
     [text |-> StyleHidesOpenTag, name |-> <<"b">>, inner |-> Slice(StyleHidesOpenTag, 3, 21)]}

IsPrefix(a, b) == Len(a) <= Len(b) /\ SubSeq(b, 1, Len(a)) = a

\* C21: comments, script and style elements are masked before the scan looks
\* at any tag: the scan starts on a text without any of them, their entries
\* come first in the markup map, and an element around one of them is masked
\* whole whatever tag the inner element hides.
C21_PriorityElementsMaskedFirst ==
    \A d \in Docs({"protected"}) :
        LET st == PriorityPhase(PassInputs(doc[d].text).html)
        IN /\ CommentMatches(st.text) = <<>>
           /\ ScriptMatches(st.text) = <<>>
           /\ StyleMatches(st.text) = <<>>
           /\ IsPrefix(st.blocks, protected_blocks.html)
           /\ \A h \in HidingElements :
                  doc[d].text = h.text =>
                      /\ doc[d].masked = Placeholder(HtmlPrefix, 1)
                      /\ protected_blocks.html =
                             <<[k |-> Placeholder(HtmlPrefix, 0), v |-> h.inner],
                               [k |-> Placeholder(HtmlPrefix, 1),
                                v |-> OpenTag(h.name) \o Placeholder(HtmlPrefix, 0)
                                          \o CloseTag(h.name)]>>

\* the script example: the close tag inside the script ends nothing
C21_Witness ==
    \E d \in Docs({"protected"}) :
        /\ doc[d].text = ScriptHidesCloseTag
        /\ Len(protected_blocks.html) = 2
        /\ doc[d].masked = Placeholder(HtmlPrefix, 1)

\* the style example, with the open tag inside the style element
C21_WitnessStyle ==
    \E d \in Docs({"protected"}) :
        /\ doc[d].text = StyleHidesOpenTag
        /\ Len(protected_blocks.html) = 2

\* the states of the scan loop, from st to the state in which it ends
RECURSIVE ScanTrace(_)
ScanTrace(st) == IF ScanDone(st) THEN <<st>> ELSE <<st>> \o ScanTrace(ScanStep(st))

\* the scan state after protected_text[s:e] is replaced by the placeholder
\* with the current number
Masked(st, s, e) ==
    LET ph == Placeholder(HtmlPrefix, st.counter)
    IN [text |-> Slice(st.text, 0, s) \o ph \o Slice(st.text, e, Len(st.text)),
        blocks |-> Append(st.blocks, [k |-> ph, v |-> Slice(st.text, s, e)]),
        counter |-> st.counter + 1,
        pos |-> s + Len(ph)]

\* C22: at a tag with a name, the scan masks the tag alone, up to the first
\* '>', when the tag ends in '/>' or its lower-cased name is a void name; a
\* void tag with no '>' behind it stays and the scan goes on one character
\* later; any other tag is masked up to its matching close tag or stays.
C22_VoidAndSelfClosingTags ==
    \A d \in Docs({"protected"}) :
        LET trace == ScanTrace(PriorityPhase(PassInputs(doc[d].text).html))
        IN /\ \A i \in 1..(Len(trace) - 1) :
                  LET st == trace[i]
                      t == st.text
                      s == Find(t, <<"<">>, st.pos)
                      name == Lower(TagNameAt(t, s))
                      g == Find(t, <<">">>, s)
                      ends_in_slash == g /= -1 /\ At(t, g - 1) = "/" /\ g - 1 > s + 1
                      end == _find_complete_tag(t, s, name)
                  IN name /= <<>> =>
                         trace[i + 1] =
                             IF ends_in_slash \/ (name \in single_tags /\ g /= -1)
                             THEN Masked(st, s, g + 1)
                             ELSE IF name \in single_tags THEN [st EXCEPT !.pos = s + 1]
                             ELSE IF end /= -1 THEN Masked(st, s, end)
                             ELSE [st EXCEPT !.pos = s + 1]
           /\ doc[d].text = SelfClosingAndVoid =>
                  /\ doc[d].masked = Placeholder(HtmlPrefix, 0) \o Slice(SelfClosingAndVoid, 4, 9)
                                        \o Placeholder(HtmlPrefix, 1)
                  /\ protected_blocks.html =
                         <<[k |-> Placeholder(HtmlPrefix, 0), v |-> Slice(SelfClosingAndVoid, 0, 4)],
                           [k |-> Placeholder(HtmlPrefix, 1), v |-> Slice(SelfClosingAndVoid, 9, 13)]>>
           /\ doc[d].text = VoidWithoutBracket =>
                  doc[d].masked = VoidWithoutBracket /\ protected_blocks = NoBlocks
           /\ doc[d].text = NotVoid =>
                  /\ doc[d].masked = Placeholder(HtmlPrefix, 0)
                  /\ protected_blocks.html = <<[k |-> Placeholder(HtmlPrefix, 0), v |-> NotVoid]>>

\* the self-closing <b/> and the void <HR> masked each on its own, the close
\* tag between them left in the text
C22_Witness ==
    \E d \in Docs({"protected"}) :
        /\ doc[d].text = SelfClosingAndVoid
        /\ Len(protected_blocks.html) = 2
        /\ Occurs(doc[d].masked, CloseTag(<<"b">>))

\* the void tag that is never closed by '>'
C22_WitnessNoBracket ==
    \E d \in Docs({"protected"}) :
        /\ doc[d].text = VoidWithoutBracket
        /\ doc[d].masked = VoidWithoutBracket

ThreeHyphens == <<"-", "-", "-">>

\* C23: the yaml map has at most one entry, stored under the fixed token
\* __YAML_FRONT_MATTER__, which then opens the masked text; the stored block
\* starts at offset 0 of the document with the line ---, and ends with a line
\* that consists of ---; a text that does not open with the line --- has no
\* front matter masked.
C23_FrontMatterOnlyAtStart ==
    \A d \in Docs({"protected"}) :
        LET yaml == protected_blocks.yaml
            t == doc[d].text
            v == yaml[1].v
        IN /\ Len(yaml) <= 1
           /\ yaml = <<>> => ~Occurs(doc[d].masked, YamlPlaceholder)
           /\ Slice(t, 0, 4) /= ThreeHyphens \o NewLine => yaml = <<>>
           /\ yaml /= <<>> =>
                  /\ yaml[1].k = YamlPlaceholder
                  /\ IsPrefix(YamlPlaceholder, doc[d].masked)
                  /\ IsPrefix(v, t)
                  /\ Slice(v, 0, 4) = ThreeHyphens \o NewLine
                  /\ Len(v) >= 8
                  /\ Slice(v, Len(v) - 4, Len(v)) = NewLine \o ThreeHyphens
                  /\ At(t, Len(v)) \in {"", "\n"}

\* the length of the text behind the cursor of the scan
Remaining(st) == Len(st.text) - st.pos

\* the loop heads of the call of _find_complete_tag the scan makes in st, none
\* when it makes no call
CloseSearch(st) ==
    LET t == st.text
        s == Find(t, <<"<">>, st.pos)
        name == Lower(TagNameAt(t, s))
        g == Find(t, <<">">>, s)
    IN IF ScanDone(st) \/ name = <<>> \/ name \in single_tags
            \/ SelfClosingEnd(t, s) /= -1 \/ g = -1
       THEN <<>>
       ELSE FindCloseTrace(t, name, g + 1, 1)

\* C27: the scan ends: each iteration leaves less text behind the cursor
\* than there was, whether it masks a span or leaves a '<' as it is, so the
\* loop runs at most once per character of the text it starts on; and each
\* iteration of the loop of _find_complete_tag moves its position forward,
\* within the text.
C27_ScanTerminates ==
    \A d \in Docs({"protected"}) :
        LET trace == ScanTrace(PriorityPhase(PassInputs(doc[d].text).html))
        IN /\ ScanDone(trace[Len(trace)])
           /\ trace[Len(trace)].text = doc[d].masked
           /\ Len(trace) <= Len(trace[1].text) + 1
           /\ \A i \in 1..(Len(trace) - 1) :
                  /\ Remaining(trace[i + 1]) < Remaining(trace[i])
                  /\ Remaining(trace[i + 1]) >= 0
           /\ \A i \in 1..Len(trace) :
                  LET heads == CloseSearch(trace[i])
                  IN \A j \in 1..(Len(heads) - 1) :
                         /\ heads[j + 1].pos > heads[j].pos
                         /\ heads[j + 1].pos <= Len(trace[i].text)

\* a scan that leaves a '<' unmasked, then masks an element by a placeholder
\* longer than the element, found in two iterations of _find_complete_tag
C27_Witness ==
    \E d \in Docs({"protected"}) :
        LET trace == ScanTrace(PriorityPhase(PassInputs(doc[d].text).html))
        IN /\ Len(trace) = 3
           /\ trace[2].text = trace[1].text
           /\ Len(trace[3].text) > Len(trace[2].text)
           /\ Len(CloseSearch(trace[2])) = 2

\* C28: protect replaces the whole block map: after a protect call the map is
\* the one a fresh protector holds after that call alone, also in the
\* categories the new text has no span of, and a document whose protect and
\* restore are not interleaved with another document's is masked and
\* restored as on a fresh protector.
C28_ProtectReplacesWholeMap ==
    /\ \A d \in Docs({"protected"}) :
           /\ protected_blocks = protect(doc[d].text).blocks
           /\ doc[d].masked = protect(doc[d].text).text
    /\ \A d \in Docs({"restored", "restored twice"}) :
           doc[d].restored = restore(protect(doc[d].text).text, protect(doc[d].text).blocks)
    /\ \/ protected_blocks = NoBlocks
       \/ \E d \in Docs(Protected) : protected_blocks = protect(doc[d].text).blocks

\* a document with a math block done, then a document without any span
\* protected: the map is empty again
C28_Witness ==
    \E d \in Docs({"restored"}), e \in Docs({"protected"}) :
        /\ protect(doc[d].text).blocks.math /= EmptyDict
        /\ doc[e].text = <<"x">>
        /\ protected_blocks = NoBlocks

\* the '<' opening t is followed neither by a tag name nor by '!': a lone
\* '<' or an orphan close tag
StartsWithBareLt(t) == At(t, 0) = "<" /\ At(t, 1) \notin WordChars \cup {"!"}

\* t opens with <n> for a paired name n and holds no </n> at all
UnclosedNames(t) ==
    {n \in PairedNames :
        /\ Slice(t, 0, Len(OpenTag(n))) = OpenTag(n)
        /\ ~Occurs(Lower(t), CloseTag(n))}

\* the leading '<' (or unclosed open tag) of t is left as it is and the rest
\* of t is masked as if it stood alone
MaskedAfter(d, k) ==
    LET rest == protect(Slice(doc[d].text, k, Len(doc[d].text)))
    IN /\ doc[d].masked = Slice(doc[d].text, 0, k) \o rest.text
       /\ protected_blocks = rest.blocks

\* C10: a '<' that opens no tag, an orphan close tag and an open tag without
\* a close tag stay unmasked, and the scan goes on behind them: the elements
\* after them, also those inside the unclosed element, are masked as they
\* are without the malformed markup in front.
C10_MalformedMarkupIsSkipped ==
    \A d \in Docs({"protected"}) :
        /\ StartsWithBareLt(doc[d].text) => MaskedAfter(d, 1)
        /\ \A n \in UnclosedNames(doc[d].text) : MaskedAfter(d, Len(OpenTag(n)))

\* an unclosed <b> around a complete <i> element, which is masked
C10_Witness ==
    \E d \in Docs({"protected"}) :
        /\ doc[d].text = <<"<", "b", ">", "<", "i", ">", "x", "<", "/", "i", ">">>
        /\ doc[d].masked = <<"<", "b", ">">> \o Placeholder(HtmlPrefix, 0)
        /\ Len(protected_blocks.html) = 1

\* an orphan close tag in front of a complete element
C10_WitnessOrphan ==
    \E d \in Docs({"protected"}) :
        /\ doc[d].text = <<"<", "/", "b", ">", "<", "i", ">", "<", "/", "i", ">">>
        /\ doc[d].masked = <<"<", "/", "b", ">">> \o Placeholder(HtmlPrefix, 0)

----------------------------------------------------------------------------
(* properties of the chunker *)

RECURSIVE Contents(_)
Contents(chunks) ==
    IF chunks = <<>> THEN <<>> ELSE Head(chunks).page_content \o Contents(Tail(chunks))

IsToken(a) == a /= BlankLine

StripSeparators(content) == SelectSeq(content, IsToken)

Size(i) == Len(segments[i].page_content)

\* the segments a to e joined by blank lines
RECURSIVE Joined(_, _)
Joined(a, e) ==
    IF a > e THEN <<>>
    ELSE IF a = e THEN segments[a].page_content
    ELSE Joined(a, e - 1) \o <<BlankLine>> \o segments[e].page_content

FirstSegment(content) == content[1][1]

LastSegment(content) == content[Len(content)][1]

\* the Units made of tokens of segment i only
UnitsOf(i) ==
    {j \in 1..Len(final_chunks) :
        \A k \in 1..Len(final_chunks[j].page_content) :
            final_chunks[j].page_content[k][1] = i}

\* C4: every Unit split_text returns has a recorded token count within the
\* budget (all segments here can be reduced), so get_chunk_stats reports no
\* chunk over the limit.
C4_TokenBudget ==
    cpc \in {"done", "stats"} =>
        /\ \A j \in 1..Len(final_chunks) : final_chunks[j].token_count <= max_tokens
        /\ get_chunk_stats(final_chunks).chunks_over_limit = 0

\* C5: a segment over the budget is a buffer of its own, and comes out as two
\* or more Units, each within the budget (plus the overlap).
C5_OversizedSegmentIsSplit ==
    cpc \in {"done", "stats"} =>
        \A i \in 1..Len(segments) :
            Size(i) > max_tokens =>
                /\ \E q \in 1..Len(finalized) :
                       finalized[q].page_content = segments[i].page_content
                /\ Cardinality(UnitsOf(i)) >= 2
                /\ \A j \in UnitsOf(i) :
                       final_chunks[j].token_count <= max_tokens + chunk_overlap

\* the buffers built so far: the finalized ones, then the running one
Buffers == finalized \o (IF cpc = "loop" /\ accumulator /= None THEN <<accumulator>> ELSE <<>>)

\* C6: a buffer is a run of consecutive segments joined by blank lines; each
\* segment it absorbed kept the token count of the concatenation within
\* max_tokens, and the segment after a finalized buffer would have pushed the
\* concatenation over max_tokens.
C6_MergeExactlyWhenWithinBudget ==
    /\ \A q \in 1..Len(Buffers) :
           LET a == FirstSegment(Buffers[q].page_content)
               e == LastSegment(Buffers[q].page_content)
           IN /\ Buffers[q].page_content = Joined(a, e)
              /\ \A j \in (a + 1)..e : Len(Joined(a, j)) <= max_tokens
    /\ \A q \in 1..Len(finalized) :
           LET a == FirstSegment(finalized[q].page_content)
               e == LastSegment(finalized[q].page_content)
           IN e < Len(segments) => Len(Joined(a, e + 1)) > max_tokens

\* two segments merged into one Unit, the third starting the next Unit
C6_Witness ==
    /\ cpc = "done"
    /\ Len(segments) = 3
    /\ Len(final_chunks) = 2
    /\ final_chunks[1].page_content = Joined(1, 2)
    /\ final_chunks[1].token_count = max_tokens
    /\ final_chunks[2].page_content = segments[3].page_content

\* the buffer is one heading segment, nothing merged into it
SingleSegment(buffer) ==
    FirstSegment(buffer.page_content) = LastSegment(buffer.page_content)

\* the Units that hold a token twice or, one after the other, share a token:
\* the traces of the overlap
OverlapUnits ==
    {j \in 1..Len(final_chunks) :
        \E k \in 1..Len(final_chunks) :
            /\ k /= j
            /\ \E a \in 1..Len(final_chunks[j].page_content) :
                   \E b \in 1..Len(final_chunks[k].page_content) :
                       /\ final_chunks[j].page_content[a] = final_chunks[k].page_content[b]
                       /\ final_chunks[j].page_content[a] /= BlankLine}

\* C25: a buffer of the merge phase is one segment or counts at most
\* max_tokens tokens; so _process_chunk re-splits only buffers of one
\* segment, a merged buffer comes out as the one Unit it is, and Units that
\* overlap are pieces of one segment.
C25_ResplitOnlySingleSegments ==
    /\ \A q \in 1..Len(Buffers) :
           SingleSegment(Buffers[q]) \/ count_tokens(Buffers[q].page_content) <= max_tokens
    /\ \A q \in 1..Len(finalized) :
           IF SingleSegment(finalized[q])
           THEN Len(_process_chunk(finalized[q], chunk_overlap).returned) > 1
                    => count_tokens(finalized[q].page_content) > max_tokens
           ELSE _process_chunk(finalized[q], chunk_overlap).returned
                    = <<[finalized[q] EXCEPT !.token_count = count_tokens(finalized[q].page_content)]>>
    /\ \A j \in OverlapUnits :
           /\ chunk_overlap > 0
           /\ BlankLine \notin {final_chunks[j].page_content[a] :
                                    a \in 1..Len(final_chunks[j].page_content)}
           /\ SingleSegment(final_chunks[j])

\* a merged buffer finalized as it is, then an oversized segment re-split
\* with overlap
C25_Witness ==
    /\ cpc = "done"
    /\ chunk_overlap > 0
    /\ Len(finalized) = 2
    /\ ~SingleSegment(finalized[1])
    /\ count_tokens(finalized[2].page_content) > text_splitter_chunk_size
    /\ OverlapUnits /= {}

\* C26: the buffers of the merge phase, in the order they are finalized, are
\* runs of consecutive segments that follow one another without a gap: the
\* first starts at segment 1, each next one at the segment after the end of
\* the one before, and the buffers built so far cover exactly the segments
\* the loop has taken; when split_text returns, every segment is in exactly
\* one finalized buffer, the last buffer included.
C26_SegmentsPartitionedIntoBuffers ==
    LET first(q) == FirstSegment(Buffers[q].page_content)
        last(q) == LastSegment(Buffers[q].page_content)
        n == Len(Buffers)
    IN /\ \A q \in 1..n :
              /\ Buffers[q].page_content = Joined(first(q), last(q))
              /\ first(q) = IF q = 1 THEN 1 ELSE last(q - 1) + 1
       /\ cpc = "loop" => (IF n = 0 THEN 0 ELSE last(n)) = next_chunk - 1
       /\ cpc \in {"done", "stats"} =>
              /\ Buffers = finalized
              /\ (IF n = 0 THEN 0 ELSE last(n)) = Len(segments)
              /\ \A i \in 1..Len(segments) :
                     Cardinality({q \in 1..Len(finalized) :
                                     i \in first(q)..last(q)}) = 1

\* three segments in two buffers, the final segment merged into the last one
C26_Witness ==
    /\ cpc = "done"
    /\ Len(segments) = 3
    /\ Len(finalized) = 2
    /\ finalized[1].page_content = segments[1].page_content
    /\ finalized[2].page_content = Joined(2, 3)

\* the header metadata of the segments a to e, applied in segment order: for
\* each heading level the value of the last segment that has it
LastWins(a, e) ==
    LET has(h) == {i \in a..e : h \in DOMAIN segments[i].metadata}
    IN [h \in UNION {DOMAIN segments[i].metadata : i \in a..e} |->
           segments[Max(has(h))].metadata[h]]

\* C30: a buffer's header metadata is the metadata of its segments applied
\* in segment order, level by level: the value of the latest segment that has
\* the level, levels only earlier segments have kept; every Unit carries the
\* header metadata of the buffer it comes from.
C30_MetadataMergedKeyByKey ==
    /\ \A q \in 1..Len(Buffers) :
           Buffers[q].metadata = LastWins(FirstSegment(Buffers[q].page_content),
                                          LastSegment(Buffers[q].page_content))
    /\ \A j \in 1..Len(final_chunks) :
           \E q \in 1..Len(finalized) :
               /\ FirstSegment(final_chunks[j].page_content)
                      \in FirstSegment(finalized[q].page_content)..LastSegment(finalized[q].page_content)
               /\ final_chunks[j].metadata = finalized[q].metadata

\* a Unit merged from a section under "A"/"B" and a later top-level section
\* "C": it carries the newer level-1 heading with the older level-2 heading
C30_Witness ==
    /\ cpc = "done"
    /\ \E j \in 1..Len(final_chunks) :
           /\ DOMAIN final_chunks[j].metadata = {"Header 1", "Header 2"}
           /\ final_chunks[j].metadata["Header 1"] = "C"
           /\ final_chunks[j].metadata["Header 2"] = "B"
           /\ final_chunks[j].page_content = Joined(1, 2)

\* C13: when the heading partitioner returns no segments, split_text returns
\* no Units: no buffer is ever started or handed to _process_chunk (the only
\* caller of the recursive splitter).
C13_EmptyInputGivesNoUnits ==
    segments = <<>> =>
        /\ accumulator = None
        /\ finalized = <<>>
        /\ final_chunks = <<>>
        /\ get_chunk_stats(final_chunks).total_chunks = 0

C13_Witness ==
    /\ cpc = "done"
    /\ segments = <<>>
    /\ final_chunks = <<>>

\* the token count get_chunk_stats reads from the j-th chunk: the recorded
\* one, 0 when none is recorded
Recorded(chunks, j) ==
    IF chunks[j].token_count = NoCount THEN 0 ELSE chunks[j].token_count

\* C14: get_chunk_stats leaves the units as they are and reports their
\* number, the sum of the recorded token counts, their mean (0 for no units),
\* their maximum (0 for no units) and the number of units whose recorded
\* count is strictly greater than max_tokens.
C14_StatsAreAnAggregation ==
    stats /= None =>
        LET cs == stats.chunks
            r == stats.result
            n == Len(cs)
        IN /\ cs \in {final_chunks, header_chunks}
           /\ r.total_chunks = n
           /\ r.total_tokens = Cardinality({<<j, k>> \in (1..n) \X (1..text_splitter_chunk_size) :
                                                k <= Recorded(cs, j)})
           /\ r.avg_tokens_per_chunk.num * n = r.total_tokens * r.avg_tokens_per_chunk.den
           /\ r.avg_tokens_per_chunk.den > 0
           /\ n = 0 => r.avg_tokens_per_chunk.num = 0 /\ r.max_tokens = 0
           /\ \A j \in 1..n : Recorded(cs, j) <= r.max_tokens
           /\ n > 0 => \E j \in 1..n : Recorded(cs, j) = r.max_tokens
           /\ r.chunks_over_limit =
                  Cardinality({j \in 1..n : Recorded(cs, j) >= max_tokens + 1})

\* statistics of Units of which one is exactly at the budget and one over it
C14_Witness ==
    /\ stats /= None
    /\ stats.chunks = final_chunks
    /\ \E j \in 1..Len(final_chunks) : final_chunks[j].token_count = max_tokens
    /\ stats.result.chunks_over_limit >= 1
    /\ stats.result.total_chunks >= 3

\* statistics of chunks without a recorded token count
C14_WitnessNoCount ==
    /\ stats /= None
    /\ stats.chunks = header_chunks
    /\ header_chunks /= <<>>
    /\ stats.result.total_tokens = 0

\* C7: the Units' contents, concatenated in output order with the blank
\* lines removed, are the segments of the input in source order.
C7_OrderPreservation ==
    cpc \in {"done", "stats"} =>
        StripSeparators(Contents(final_chunks)) = Contents(segments)

\* C7, amended: the same for a chunker built with chunk_overlap = 0.
C7_OrderPreservationWithoutOverlap ==
    (cpc \in {"done", "stats"} /\ chunk_overlap = 0) =>
        StripSeparators(Contents(final_chunks)) = Contents(segments)

\* a merged Unit followed by the pieces of a re-split segment
C7_Witness ==
    /\ cpc = "done"
    /\ chunk_overlap = 0
    /\ Len(finalized) = 2
    /\ Len(final_chunks) = 3
    /\ final_chunks[1].page_content = Joined(1, 2)
    /\ Size(3) > text_splitter_chunk_size

----------------------------------------------------------------------------
(* properties of the translator *)

\* C15: when the oracle fails for a unit, translate does not return a result
\* as if the unit had been translated, and translate_file does not return
\* True.
C15_OracleFailureIsPropagated ==
    tr.failed /= {} =>
        /\ tr.pc /= "translated"
        /\ tr.success /= "True"

\* the entries of a block map, category by category
AllItems(blocks) ==
    blocks.yaml \o blocks.math \o blocks.code \o blocks.indent \o blocks.table \o blocks.html

\* no stored span holds a placeholder token
Flat(blocks) ==
    \A i \in 1..Len(AllItems(blocks)), j \in 1..Len(AllItems(blocks)) :
        ~Occurs(AllItems(blocks)[i].v, AllItems(blocks)[j].k)

\* t read from pos on with the stored span in place of every token of items
RECURSIVE ExpandTokens(_, _, _)
ExpandTokens(t, items, pos) ==
    LET here == {i \in 1..Len(items) : Slice(t, pos, pos + Len(items[i].k)) = items[i].k}
        i == CHOOSE i \in here : TRUE
    IN IF pos >= Len(t) THEN <<>>
       ELSE IF here = {} THEN <<t[pos + 1]>> \o ExpandTokens(t, items, pos + 1)
       ELSE items[i].v \o ExpandTokens(t, items, pos + Len(items[i].k))

\* how often sub occurs in t from pos on
RECURSIVE Count(_, _, _)
Count(t, sub, pos) ==
    LET i == Find(t, sub, pos)
    IN IF i = -1 THEN 0 ELSE 1 + Count(t, sub, i + Len(sub))

\* C29: restore returns the text it is given with every occurrence of every
\* token of the block map replaced by the stored span (here no stored span
\* holds a token): a token the oracle has doubled is expanded at each place,
\* and a token the oracle has dropped is no error, the text comes back
\* without the stored span and otherwise as it was.
C29_RestoreReplacesEveryOccurrence ==
    tr.pc = "translated" =>
        LET items == AllItems(protected_blocks)
        IN /\ protected_blocks = protect(tr.content).blocks
           /\ Flat(protected_blocks) =>
                  /\ tr.result = ExpandTokens(tr.translated_text, items, 0)
                  /\ \A i \in 1..Len(items) :
                         /\ ~Occurs(tr.result, items[i].k)
                         /\ Count(tr.result, items[i].v, 0)
                                = Count(tr.translated_text, items[i].k, 0)

\* the oracle has doubled a token: the stored span stands twice in the result
C29_Witness ==
    /\ tr.pc = "translated"
    /\ Len(protected_blocks.math) = 1
    /\ Count(tr.translated_text, protected_blocks.math[1].k, 0) = 2
    /\ Count(tr.result, protected_blocks.math[1].v, 0) = 2

\* the oracle has dropped a token: the result is the text as it came back
C29_WitnessAbsent ==
    /\ tr.pc = "translated"
    /\ Len(protected_blocks.math) = 1
    /\ ~Occurs(tr.translated_text, protected_blocks.math[1].k)
    /\ tr.result = tr.translated_text

\* the calls of a complete run of translate on n Units
ExpectedLog(n) ==
    <<Call("protect", 0), Call("split_text", 0)>>
        \o [i \in 1..n |-> Call("_generate_text", i)]
        \o <<Call("join", 0), Call("restore", 0)>>

\* translate has returned its result: the last call in the log is restore
TranslateReturned ==
    tr.log /= <<>> /\ tr.log[Len(tr.log)] = Call("restore", 0)

\* C24: translate calls protect once, then split_text on the masked text,
\* then the oracle once per Unit in Unit order whatever it answers, then
\* joins the answers in that order and calls restore once on the joined text;
\* in a translate that returns, the number of oracle calls is the number of
\* Units, which get_translation_stats reports for that text as
\* estimated_api_calls.  A translate that an exception has ended (of the
\* oracle, or of the join over an answer that is no text) has made its calls
\* in the same order, up to the call that raised.
C24_PipelineOrder ==
    LET n == Len(tr.chunks)
        oracle_calls == Cardinality({i \in 1..Len(tr.log) : tr.log[i].op = "_generate_text"})
    IN /\ tr.pc \in {"idle", "read"} => tr.log = <<>>
       /\ tr.pc = "protected" => tr.log = <<Call("protect", 0)>>
       /\ (tr.pc \in {"chunked", "returned"} /\ tr.log /= <<>> /\ ~TranslateReturned) =>
              /\ tr.log = SubSeq(ExpectedLog(n), 1, 2 + Len(tr.translated_chunks))
              /\ tr.chunks \in SplitChoices(protect(tr.content).text)
       /\ \A i \in 1..Len(tr.translated_chunks) :
              \E outcome \in OracleOutcomes \ {"raises"} :
                  tr.translated_chunks[i] = _generate_text(tr.chunks[i], outcome)
       /\ TranslateReturned =>
              /\ tr.pc \in {"translated", "returned"}
              /\ tr.log = ExpectedLog(n)
              /\ oracle_calls = n
              /\ Len(tr.translated_chunks) = n
              /\ tr.translated_text = JoinWith(tr.translated_chunks, NewLine)
              /\ tr.result = restore(tr.translated_text, protect(tr.content).blocks)
       /\ (TranslateReturned /\ tr.stats /= None /\ tr.stats.text = tr.content) =>
              /\ tr.stats.result.estimated_api_calls = oracle_calls
              /\ tr.stats.result.total_chunks = n

\* a run over three Units in which a request failed, with the statistics of
\* its document taken after it
C24_Witness ==
    /\ tr.pc = "returned"
    /\ tr.success = "True"
    /\ Len(tr.chunks) = 3
    /\ tr.failed /= {}
    /\ tr.stats /= None
    /\ tr.stats.text = tr.content
    /\ tr.stats.result.estimated_api_calls = 3

====
